---------------------------- MODULE Spec2Model ----------------------------
(***************************************************************************)
(* A model of the go-blog static site builder: the slug derivation, the   *)
(* navigation tree builder (addToTree), the inline directive expansion    *)
(* (processCustomSyntax), the description derivation, the sitemap emitter *)
(* and the build itself (main): input check, output directory, directory  *)
(* walk and the three output files.                                        *)
(*                                                                         *)
(* Go strings are modelled as TLA+ strings, one TLA+ character per byte.   *)
(* Bytes of a multi-byte UTF-8 rune are written with two stand-in          *)
(* characters: "^" for the lead byte and "~" for the continuation byte.    *)
(***************************************************************************)
EXTENDS Integers, Sequences, FiniteSets, TLC

VARIABLES
    menu,       \* site.Menu: the navigation tree (sequence of MenuItem)
    inserted,   \* the documents already given to addToTree
    relPath,    \* slug derivation: the document's path relative to InputDir
    slug,       \* slug derivation: the derived slug
    slugPc,     \* slug derivation: "start" or "done"
    text,       \* directive expansion: the pieces of the rendered HTML
    html,       \* directive expansion: processCustomSyntax(rendered HTML)
    synPc,      \* directive expansion: "input" or "done"
    metaData,   \* description: the front matter (key -> typed value)
    doc,        \* description: the parsed document (top-level nodes)
    resDesc,    \* description: RenderResult.Description of ProcessMarkdown
    mainDesc,   \* description: PageData.Description of the monolithic build
    descPc,     \* description: which of the two builds have run
    xmlUrls,    \* sitemap: the slug list
    today,      \* sitemap: time.Now() formatted as 2006-01-02
    sitemap,    \* sitemap: sitemap.xml written by GenerateXMLSitemap
    sitemapMono,\* sitemap: sitemap.xml written by generateXMLSitemap
    mapPc,      \* sitemap: "collect", then the build that wrote the file
    inputDir,   \* build: InputDir on disk (whether it exists, its files)
    outDir,     \* build: OutputDir on disk (whether it exists, its files)
    faults,     \* build: the file system operations that fail in this run
    buildPc,    \* build: the position of main
    pending,    \* build: the entries filepath.WalkDir has still to visit
    pages,      \* build: site.Pages (slug -> PageData)
    stdout,     \* build: the lines printed
    readFiles,  \* build: the paths given to os.ReadFile
    siteData,   \* view: window.siteData.pages (slug -> elements of the content)
    dom,        \* view: the placeholder elements of the displayed page
    resolved,   \* view: the placeholders whose callback has completed
    viewPc      \* view: the position of resolveTransclusions

treeVars == <<menu, inserted>>
slugVars == <<relPath, slug, slugPc>>
synVars  == <<text, html, synPc>>
descVars == <<metaData, doc, resDesc, mainDesc, descPc>>
mapVars  == <<xmlUrls, today, sitemap, sitemapMono, mapPc>>
buildVars == <<inputDir, outDir, faults, buildPc, pending, pages, stdout, readFiles>>
viewVars == <<siteData, dom, resolved, viewPc>>
vars == <<treeVars, slugVars, synVars, descVars, mapVars, buildVars, viewVars>>

---------------------------------------------------------------------------
(* Bytes and strings                                                       *)

\* The printable ASCII characters in byte order: 0x20..0x5F and 0x61..0x7E
\* (0x60, the backquote, occurs in no string of the model).
AsciiLo ==
    " !\"#$%&'()*+,-./0123456789:;<=>?@ABCDEFGHIJKLMNOPQRSTUVWXYZ[\\]^_"
AsciiHi == "abcdefghijklmnopqrstuvwxyz{|}~"

Lower == "abcdefghijklmnopqrstuvwxyz"
Upper == "ABCDEFGHIJKLMNOPQRSTUVWXYZ"
Digits == "0123456789"

At(s, i) == SubSeq(s, i, i)

IndexIn(c, table) ==
    IF \E i \in 1..Len(table) : At(table, i) = c
    THEN CHOOSE i \in 1..Len(table) : At(table, i) = c
    ELSE 0

\* The byte value of a character; "\t", "\n" and "\r" lie below every
\* printable character.
Ord(c) ==
    CASE c = "\t" -> 9
      [] c = "\n" -> 10
      [] c = "\r" -> 13
      [] IndexIn(c, AsciiLo) # 0 -> 31 + IndexIn(c, AsciiLo)
      [] OTHER -> 96 + IndexIn(c, AsciiHi)

RECURSIVE LessStr(_, _)
\* Go's string comparison a < b: byte-wise lexical order.
LessStr(a, b) ==
    IF b = "" THEN FALSE
    ELSE IF a = "" THEN TRUE
    ELSE IF At(a, 1) = At(b, 1) THEN LessStr(Tail(a), Tail(b))
    ELSE Ord(At(a, 1)) < Ord(At(b, 1))

HasPrefix(s, p) == Len(s) >= Len(p) /\ SubSeq(s, 1, Len(p)) = p
HasSuffix(s, p) == Len(s) >= Len(p) /\ SubSeq(s, Len(s) - Len(p) + 1, Len(s)) = p
TrimSuffix(s, p) == IF HasSuffix(s, p) THEN SubSeq(s, 1, Len(s) - Len(p)) ELSE s

\* strings.Index(s[from..], sub) as an absolute position, 0 when absent.
IndexFrom(s, sub, from) ==
    LET cands == {i \in from..(Len(s) - Len(sub) + 1) : SubSeq(s, i, i + Len(sub) - 1) = sub}
    IN IF cands = {} THEN 0 ELSE CHOOSE i \in cands : \A j \in cands : i <= j

Contains(s, sub) == IndexFrom(s, sub, 1) # 0

LastIndex(s, c) ==
    LET cands == {i \in 1..Len(s) : At(s, i) = c}
    IN IF cands = {} THEN 0 ELSE CHOOSE i \in cands : \A j \in cands : i >= j

RECURSIVE Split(_, _)
\* strings.Split(s, sep) for a one-byte separator.
Split(s, sep) ==
    LET i == IndexFrom(s, sep, 1)
    IN IF i = 0 THEN <<s>>
       ELSE <<SubSeq(s, 1, i - 1)>> \o Split(SubSeq(s, i + 1, Len(s)), sep)

\* strings.SplitN(s, sep, 2).
SplitN2(s, sep) ==
    LET i == IndexFrom(s, sep, 1)
    IN IF i = 0 THEN <<s>>
       ELSE <<SubSeq(s, 1, i - 1), SubSeq(s, i + 1, Len(s))>>

RECURSIVE JoinWith(_, _)
JoinWith(elems, sep) ==
    IF elems = <<>> THEN ""
    ELSE IF Len(elems) = 1 THEN elems[1]
    ELSE elems[1] \o sep \o JoinWith(Tail(elems), sep)

RECURSIVE ReplaceAll(_, _, _)
\* strings.ReplaceAll(s, old, new) for a one-byte old.
ReplaceAll(s, old, new) ==
    IF s = "" THEN ""
    ELSE (IF At(s, 1) = old THEN new ELSE At(s, 1)) \o ReplaceAll(Tail(s), old, new)

IsSpace(c) == c \in {" ", "\t", "\n", "\r"}

RECURSIVE TrimLeft(_)
TrimLeft(s) == IF s # "" /\ IsSpace(At(s, 1)) THEN TrimLeft(Tail(s)) ELSE s

RECURSIVE TrimRight(_)
TrimRight(s) ==
    IF s # "" /\ IsSpace(At(s, Len(s))) THEN TrimRight(SubSeq(s, 1, Len(s) - 1)) ELSE s

\* strings.TrimSpace
TrimSpace(s) == TrimRight(TrimLeft(s))

IsLetter(c) == IndexIn(c, Lower) # 0 \/ IndexIn(c, Upper) # 0

\* strings.Title's isSeparator: letters, digits and underscore are not.
isSeparator(c) == ~(IsLetter(c) \/ IndexIn(c, Digits) # 0 \/ c = "_")

ToTitle(c) == IF IndexIn(c, Lower) # 0 THEN At(Upper, IndexIn(c, Lower)) ELSE c

RECURSIVE TitleFrom(_, _)
TitleFrom(s, prev) ==
    IF s = "" THEN ""
    ELSE (IF isSeparator(prev) THEN ToTitle(At(s, 1)) ELSE At(s, 1))
         \o TitleFrom(Tail(s), At(s, 1))

\* strings.Title(s): the first letter of every word in title case.
Title(s) == TitleFrom(s, " ")

\* strings.Title(strings.ReplaceAll(part, "-", " "))
SegmentTitle(part) == Title(ReplaceAll(part, "-", " "))

---------------------------------------------------------------------------
(* Paths (path/filepath on a slash-separated platform)                     *)

RECURSIVE CleanElems(_, _)
\* filepath.Clean on the elements of a relative path: empty and "."
\* elements vanish, ".." removes the element before it.
CleanElems(elems, acc) ==
    IF elems = <<>> THEN acc
    ELSE LET e == Head(elems)
         IN IF e = "" \/ e = "." THEN CleanElems(Tail(elems), acc)
            ELSE IF e = ".." /\ acc # <<>> /\ acc[Len(acc)] # ".."
                 THEN CleanElems(Tail(elems), SubSeq(acc, 1, Len(acc) - 1))
            ELSE CleanElems(Tail(elems), Append(acc, e))

Clean(path) ==
    LET out == CleanElems(Split(path, "/"), <<>>)
    IN IF out = <<>> THEN "." ELSE JoinWith(out, "/")

\* filepath.Join(a, b): the non-empty elements joined and cleaned.
Join(a, b) ==
    LET elems == SelectSeq(<<a, b>>, LAMBDA e : e # "")
    IN IF elems = <<>> THEN "" ELSE Clean(JoinWith(elems, "/"))

\* filepath.Base for a clean relative file path.
Base(path) == SubSeq(path, LastIndex(path, "/") + 1, Len(path))

\* filepath.Dir
Dir(path) == Clean(SubSeq(path, 1, LastIndex(path, "/")))

\* filepath.Ext
Ext(path) ==
    LET b == Base(path)
        i == LastIndex(b, ".")
    IN IF i = 0 THEN "" ELSE SubSeq(b, i, Len(b))

\* filename := strings.TrimSuffix(filepath.Base(path), ".md")
FileName(rel) == TrimSuffix(Base(rel), ".md")

\* dir := filepath.Dir(relPath); if dir == "." { dir = "" }
DirOf(rel) == IF Dir(rel) = "." THEN "" ELSE Dir(rel)

\* The slug of the document at path rel (relative to InputDir).
DeriveSlug(rel) ==
    LET filename == FileName(rel)
        dir == DirOf(rel)
    IN IF dir = "" /\ filename = "index" THEN "/"
       ELSE IF filename = "index" THEN "/" \o dir
       ELSE "/" \o Join(dir, filename)

---------------------------------------------------------------------------
(* Front matter                                                            *)

\* A front-matter value as the YAML decoder stores it: a string, an int, a
\* float64 (held in tenths), a bool or nil. A missing key is not in the
\* domain of the metadata map.
StrVal(s) == [tag |-> "string", str |-> s, int |-> 0]
IntVal(n) == [tag |-> "int", str |-> "", int |-> n]
FloatVal(tenths) == [tag |-> "float", str |-> "", int |-> tenths]
BoolVal(b) == [tag |-> "bool", str |-> "", int |-> IF b THEN 1 ELSE 0]
NilVal == [tag |-> "nil", str |-> "", int |-> 0]

RECURSIVE ItoaNat(_)
ItoaNat(n) ==
    IF n < 10 THEN At(Digits, n + 1)
    ELSE ItoaNat(n \div 10) \o At(Digits, (n % 10) + 1)

\* strconv.Itoa
Itoa(n) == IF n < 0 THEN "-" \o ItoaNat(0 - n) ELSE ItoaNat(n)

\* int(f): the float64 f, given in tenths, truncated toward zero
IntOfFloat(tenths) ==
    IF tenths < 0 THEN 0 - ((0 - tenths) \div 10) ELSE tenths \div 10

RECURSIVE TrimZeros(_)
\* The digits of a number without the zeros at their end.
TrimZeros(digits) ==
    IF Len(digits) > 1 /\ At(digits, Len(digits)) = "0"
    THEN TrimZeros(SubSeq(digits, 1, Len(digits) - 1))
    ELSE digits

\* A float64 given in tenths, formatted by %v: the shortest digits, written
\* d.ddde+XX when the decimal exponent is 6 or more (1e+06, 1.2345678e+06)
\* and as a plain decimal below that (tenths never give an exponent
\* under -4).
FormatFloat(tenths) ==
    LET mag == IF tenths < 0 THEN 0 - tenths ELSE tenths
        digits == ItoaNat(mag)
        exp == Len(digits) - 2
        sig == TrimZeros(digits)
    IN (IF tenths < 0 THEN "-" ELSE "")
       \o (IF exp >= 6
           THEN At(sig, 1)
                \o (IF Len(sig) > 1 THEN "." \o SubSeq(sig, 2, Len(sig)) ELSE "")
                \o "e+" \o (IF exp < 10 THEN "0" ELSE "") \o ItoaNat(exp)
           ELSE ItoaNat(mag \div 10)
                \o (IF mag % 10 = 0 THEN "" ELSE "." \o ItoaNat(mag % 10)))

\* fmt.Sprintf("%v", val)
SprintV(val) ==
    CASE val.tag = "string" -> val.str
      [] val.tag = "int" -> Itoa(val.int)
      [] val.tag = "float" -> FormatFloat(val.int)
      [] val.tag = "bool" -> (IF val.int = 1 THEN "true" ELSE "false")
      [] val.tag = "nil" -> "<nil>"

\* getString of the monolithic build
getString(meta, key) == IF key \in DOMAIN meta THEN SprintV(meta[key]) ELSE ""

\* getInt of the monolithic build
getInt(meta, key) ==
    IF key \notin DOMAIN meta THEN 0
    ELSE IF meta[key].tag = "int" THEN meta[key].int
    ELSE IF meta[key].tag = "float" THEN IntOfFloat(meta[key].int)
    ELSE 0

\* The page title: the metadata title, else the title-cased filename, and
\* "Home" for the root slug.
FinalTitle(meta, rel) ==
    IF getString(meta, "title") # "" THEN getString(meta, "title")
    ELSE IF DeriveSlug(rel) = "/" THEN "Home"
    ELSE SegmentTitle(FileName(rel))

---------------------------------------------------------------------------
(* Navigation tree builder                                                 *)

MenuItem(title, sl, isFolder, weight) ==
    [Title |-> title, Slug |-> sl, IsFolder |-> isFolder, Weight |-> weight,
     Children |-> <<>>]

\* The comparison function given to sort.Slice: is a to be placed before b?
lessNoFolderRule(a, b) ==
    IF a.Slug = "/" THEN TRUE
    ELSE IF b.Slug = "/" THEN FALSE
    ELSE IF a.Weight # b.Weight THEN a.Weight < b.Weight
    ELSE LessStr(a.Title, b.Title)

less(a, b) ==
    IF a.Slug = "/" THEN TRUE
    ELSE IF b.Slug = "/" THEN FALSE
    ELSE IF a.Weight # b.Weight THEN a.Weight < b.Weight
    ELSE IF a.IsFolder # b.IsFolder THEN a.IsFolder
    ELSE LessStr(a.Title, b.Title)

Swap(nodes, i, j) == [nodes EXCEPT ![i] = nodes[j], ![j] = nodes[i]]

RECURSIVE SiftDown(_, _)
\* for j := i; j > a && less(j, j-1); j-- { swap(j, j-1) }
SiftDown(nodes, j) ==
    IF j > 1 /\ less(nodes[j], nodes[j - 1])
    THEN SiftDown(Swap(nodes, j, j - 1), j - 1)
    ELSE nodes

RECURSIVE InsertionSort(_, _)
InsertionSort(nodes, i) ==
    IF i > Len(nodes) THEN nodes ELSE InsertionSort(SiftDown(nodes, i), i + 1)

\* sort.Slice(nodes, less): for at most 12 elements the library sorts by
\* insertion, and the model never holds more siblings than that.
sortSlice(nodes) == InsertionSort(nodes, 2)

\* The first node of the level with the title of the segment and the kind
\* of its position, 0 when there is none.
FindNode(nodes, currentPart, isLast) ==
    LET hits == {i \in 1..Len(nodes) :
                    /\ nodes[i].Title = SegmentTitle(currentPart)
                    /\ nodes[i].IsFolder = ~isLast}
    IN IF hits = {} THEN 0 ELSE CHOOSE i \in hits : \A j \in hits : i <= j

\* NewNode giving a folder the weight of the document it is created for.
NewNodeWeightedFolder(currentPart, isLast, sl, finalTitle, weight) ==
    IF isLast THEN MenuItem(finalTitle, sl, FALSE, weight)
    ELSE MenuItem(SegmentTitle(currentPart), "", TRUE, weight)

\* The node created for a segment no node of the level matches.
NewNode(currentPart, isLast, sl, finalTitle, weight) ==
    IF isLast THEN MenuItem(finalTitle, sl, FALSE, weight)
    ELSE MenuItem(SegmentTitle(currentPart), "", TRUE, 0)

\* addToTree overwriting the leaf the lookup finds with the new document's.
RECURSIVE addToTreeReplacingLeaf(_, _, _, _, _)
addToTreeReplacingLeaf(nodes, parts, sl, finalTitle, weight) ==
    IF parts = <<>> THEN nodes
    ELSE
        LET currentPart == parts[1]
            isLast == Len(parts) = 1
            found == FindNode(nodes, currentPart, isLast)
            newNode == NewNode(currentPart, isLast, sl, finalTitle, weight)
            level == IF found = 0 THEN sortSlice(Append(nodes, newNode))
                     ELSE IF isLast THEN [nodes EXCEPT ![found] = newNode]
                     ELSE nodes
            at == IF found # 0 THEN found
                  ELSE CHOOSE i \in 1..Len(level) : level[i] = newNode
        IN IF isLast THEN level
           ELSE [level EXCEPT ![at].Children =
                    addToTreeReplacingLeaf(level[at].Children, Tail(parts), sl,
                                           finalTitle, weight)]

RECURSIVE addToTree(_, _, _, _, _)
addToTree(nodes, parts, sl, finalTitle, weight) ==
    IF parts = <<>> THEN nodes
    ELSE
        LET currentPart == parts[1]
            isLast == Len(parts) = 1
            found == FindNode(nodes, currentPart, isLast)
            newNode == NewNode(currentPart, isLast, sl, finalTitle, weight)
            \* the level after the append and the sort, when a node is created
            level == IF found = 0 THEN sortSlice(Append(nodes, newNode)) ELSE nodes
            \* foundNode is a pointer: it names the same node after the sort
            at == IF found # 0 THEN found
                  ELSE CHOOSE i \in 1..Len(level) : level[i] = newNode
        IN IF isLast THEN level
           ELSE [level EXCEPT ![at].Children =
                    addToTree(level[at].Children, Tail(parts), sl, finalTitle, weight)]

\* parts := strings.Split(strings.TrimSuffix(relPath, ".md"), "/")
PartsOf(rel) == Split(TrimSuffix(rel, ".md"), "/")

\* site.Menu after the document d of the walk has been added.
MenuWith(nodes, d) ==
    addToTree(nodes, PartsOf(d.relPath), DeriveSlug(d.relPath),
              FinalTitle(d.meta, d.relPath), getInt(d.meta, "weight"))

---------------------------------------------------------------------------
(* Each specification below drives one component and leaves the variables  *)
(* of the others at rest.                                                  *)

TreeIdle == menu = <<>> /\ inserted = {}
SlugIdle == relPath = "" /\ slug = "" /\ slugPc = "idle"
SynIdle  == text = <<>> /\ html = "" /\ synPc = "idle"
DescIdle == /\ metaData = <<>> /\ doc = <<>> /\ resDesc = "" /\ mainDesc = ""
            /\ descPc = {}
MapIdle  == /\ xmlUrls = <<>> /\ today = "" /\ sitemap = "" /\ sitemapMono = ""
            /\ mapPc = "idle"
BuildIdle == /\ inputDir = [exists |-> FALSE, files |-> {}]
             /\ outDir = [exists |-> FALSE, files |-> <<>>]
             /\ faults = {} /\ buildPc = "idle" /\ pending = <<>>
             /\ pages = <<>> /\ stdout = <<>> /\ readFiles = {}
ViewIdle == siteData = <<>> /\ dom = <<>> /\ resolved = 0 /\ viewPc = "idle"

---------------------------------------------------------------------------
(* Specification SpecTree: documents are given to addToTree in any order   *)

MaxDocs == 4

TreePaths == {"index.md", "a.md", "b.md", "a-b/index.md", "a-b/b.md"}
\* The front matter of a document: empty, a title, or a weight.
TreeMetas ==
    {<<>>} \cup {[title |-> StrVal(t)] : t \in {"B", "a"}}
           \cup {[weight |-> IntVal(w)] : w \in {-1, 1}}
TreeDocs == {[relPath |-> p, meta |-> m] : p \in TreePaths, m \in TreeMetas}

InitTree ==
    /\ menu = <<>>
    /\ inserted = {}
    /\ SlugIdle /\ SynIdle /\ DescIdle /\ MapIdle /\ BuildIdle /\ ViewIdle

\* One document of the walk: its page is titled and its menu entry added.
Insert(d) ==
    /\ Cardinality(inserted) < MaxDocs
    /\ \A e \in inserted : e.relPath # d.relPath
    /\ menu' = MenuWith(menu, d)
    /\ inserted' = inserted \cup {d}
    /\ UNCHANGED <<slugVars, synVars, descVars, mapVars, buildVars, viewVars>>

NextTree == \E d \in TreeDocs : Insert(d)

SpecTree == InitTree /\ [][NextTree]_vars

RECURSIVE Levels(_)
\* Every sibling sequence of the tree under (and including) nodes.
Levels(nodes) ==
    {nodes} \cup UNION {Levels(nodes[i].Children) : i \in 1..Len(nodes)}

\* a may stand before b among the nodes that are not the "/" node.
InOrder(a, b) ==
    /\ a.Weight <= b.Weight
    /\ (a.Weight = b.Weight /\ b.IsFolder) => a.IsFolder
    /\ (a.Weight = b.Weight /\ a.IsFolder = b.IsFolder) => ~LessStr(b.Title, a.Title)

LevelOrdered(nodes) ==
    /\ \A i \in 1..Len(nodes) : nodes[i].Slug = "/" => i = 1
    /\ \A i, j \in 1..Len(nodes) :
          (i < j /\ nodes[i].Slug # "/" /\ nodes[j].Slug # "/")
              => InOrder(nodes[i], nodes[j])

RECURSIVE NodesShaped(_, _, _)
\* Every node of the level holding the segments at position depth of the
\* documents docs, and every node below it, is a folder or a leaf: a
\* folder has an empty slug, weight 0 and the title-cased form of a segment
\* at this position; a leaf has no children and the slug, weight and final
\* title of a document whose path ends at this position.
NodesShaped(nodes, docs, depth) ==
    \A i \in 1..Len(nodes) :
        LET n == nodes[i]
            through == {d \in docs : Len(PartsOf(d.relPath)) > depth}
            ending == {d \in docs : Len(PartsOf(d.relPath)) = depth}
            below == {d \in through :
                         Title(ReplaceAll(PartsOf(d.relPath)[depth], "-", " ")) = n.Title}
        IN IF n.IsFolder
           THEN /\ n.Slug = "" /\ n.Weight = 0
                /\ below # {}
                /\ NodesShaped(n.Children, below, depth + 1)
           ELSE /\ n.Children = <<>>
                /\ \E d \in ending :
                      /\ n.Slug = DeriveSlug(d.relPath)
                      /\ n.Weight = getInt(d.meta, "weight")
                      /\ n.Title = FinalTitle(d.meta, d.relPath)

\* C20: after any sequence of insertions every menu node is a folder
\* (empty slug, weight 0, the title-cased, hyphen-to-space form of its path
\* segment as title) or a leaf (no children; slug, weight and final title
\* of the document whose insertion created it).
C20_NodeShapes == NodesShaped(menu, inserted, 1)

\* C20 witness: the folder "A B" made for the segment a-b holds the leaf of
\* a document of weight 1, beside a leaf of negative weight.
C20_Witness ==
    /\ \E i \in 1..Len(menu) :
          /\ menu[i].IsFolder /\ menu[i].Title = "A B" /\ menu[i].Weight = 0
          /\ Len(menu[i].Children) = 1
          /\ menu[i].Children[1].Slug = "/a-b/b" /\ menu[i].Children[1].Weight = 1
    /\ \E i \in 1..Len(menu) : ~menu[i].IsFolder /\ menu[i].Weight = -1

---------------------------------------------------------------------------
(* Specification SpecCollide: addToTree over documents whose path segments *)
(* differ and have the same title-cased form                               *)

CollidePaths == {"a-b.md", "a b.md", "a-b/c.md", "a b/d.md"}
CollideMetas == {<<>>, [title |-> StrVal("X")]}
CollideDocs == {[relPath |-> p, meta |-> m] : p \in CollidePaths, m \in CollideMetas}

NextCollide == \E d \in CollideDocs : Insert(d)

SpecCollide == InitTree /\ [][NextCollide]_vars

\* The title-cased, hyphen-to-space form of the segment at position depth
\* of the path of d.
DerivedTitle(d, depth) == Title(ReplaceAll(PartsOf(d.relPath)[depth], "-", " "))

RECURSIVE FoldersMerged(_)
\* No two folders of a level, at any depth, have the same title.
FoldersMerged(nodes) ==
    \A i \in 1..Len(nodes) :
        /\ \A j \in 1..Len(nodes) :
              (i # j /\ nodes[i].IsFolder /\ nodes[j].IsFolder)
                  => nodes[i].Title # nodes[j].Title
        /\ FoldersMerged(nodes[i].Children)

RECURSIVE LeavesMerged(_, _, _)
\* No two leaves of a level, at any depth, were created for documents
\* whose segments at that level have the same derived title.
LeavesMerged(nodes, docs, depth) ==
    /\ \A i, j \in 1..Len(nodes) :
          (i # j /\ ~nodes[i].IsFolder /\ ~nodes[j].IsFolder) =>
              \A d, e \in {x \in docs : Len(PartsOf(x.relPath)) = depth} :
                  (DeriveSlug(d.relPath) = nodes[i].Slug
                   /\ DeriveSlug(e.relPath) = nodes[j].Slug)
                      => DerivedTitle(d, depth) # DerivedTitle(e, depth)
    /\ \A i \in 1..Len(nodes) :
          nodes[i].IsFolder =>
              LeavesMerged(nodes[i].Children,
                           {x \in docs : Len(PartsOf(x.relPath)) > depth},
                           depth + 1)

\* C21: segments of one level and one kind that have the same derived
\* title share one node: the menu never holds two sibling folders, nor two
\* sibling leaves, made for segments with the same derived title.
C21_CollidingSegmentsShareNode ==
    FoldersMerged(menu) /\ LeavesMerged(menu, inserted, 1)

\* Folders of segments with the same derived title share one folder node
\* that holds the children of both.
CollidingFoldersShareNode ==
    /\ FoldersMerged(menu)
    /\ ({"a-b/c.md", "a b/d.md"} \subseteq {d.relPath : d \in inserted}) =>
          \E i \in 1..Len(menu) :
              /\ menu[i].IsFolder /\ menu[i].Title = "A B"
              /\ {menu[i].Children[k].Slug : k \in 1..Len(menu[i].Children)}
                     = {"/a-b/c", "/a b/d"}

\* The leaves among nodes whose title is t.
LeavesTitled(nodes, t) ==
    {i \in 1..Len(nodes) : ~nodes[i].IsFolder /\ nodes[i].Title = t}

\* What the lookup does for leaves: the insertion of a root document
\* creates a leaf exactly when no leaf of the root level has a title (the
\* final title of its document) equal to the derived title of the
\* document's segment.
LeafFoundByNodeTitle ==
    [][\A d \in inserted' \ inserted :
          Len(PartsOf(d.relPath)) = 1 =>
              /\ LeavesTitled(menu, DerivedTitle(d, 1)) # {} => menu' = menu
              /\ LeavesTitled(menu, DerivedTitle(d, 1)) = {} =>
                    /\ Len(menu') = Len(menu) + 1
                    /\ \E i \in 1..Len(menu') :
                          menu'[i].Slug = DeriveSlug(d.relPath)]_vars

\* C1: after any sequence of insertions every sibling sequence of the menu
\* is ordered: the "/" node first, the others by ascending weight, folders
\* before leaves within a weight, titles in ascending byte order within a
\* weight and kind.
C1_SiblingsOrdered == \A nodes \in Levels(menu) : LevelOrdered(nodes)

\* C1 witness: the root level holds the "/" node in front of a node of
\* smaller, negative weight, and a folder in front of a leaf of its weight
\* whose title does not follow the folder's.
C1_Witness ==
    /\ Len(menu) >= 4
    /\ menu[1].Slug = "/"
    /\ \E i \in 2..Len(menu) : menu[i].Weight < 0 /\ menu[i].Weight < menu[1].Weight
    /\ \E i, j \in 2..Len(menu) :
          /\ i < j /\ menu[i].IsFolder /\ ~menu[j].IsFolder
          /\ menu[i].Weight = menu[j].Weight
          /\ ~LessStr(menu[i].Title, menu[j].Title)

\* All orders in which the documents of a set can be inserted.
Orders(docs) ==
    LET n == Cardinality(docs)
    IN {o \in [1..n -> docs] : \A i, j \in 1..n : o[i] = o[j] => i = j}

RECURSIVE MenuOf(_)
MenuOf(order) ==
    IF order = <<>> THEN <<>>
    ELSE MenuWith(MenuOf(SubSeq(order, 1, Len(order) - 1)), order[Len(order)])

\* No two distinct segments of the same depth and kind have the same title.
NoSegmentCollision(docs) ==
    \A d, e \in docs :
        LET p == PartsOf(d.relPath)
            q == PartsOf(e.relPath)
        IN \A k \in 1..Len(p) :
              (k <= Len(q) /\ p[k] # q[k] /\ (k = Len(p)) = (k = Len(q)))
                  => SegmentTitle(p[k]) # SegmentTitle(q[k])

\* C2: for documents without colliding segments the menu is the same for
\* every insertion order.
C2_OrderIndependent ==
    NoSegmentCollision(inserted) => \A o \in Orders(inserted) : MenuOf(o) = menu

---------------------------------------------------------------------------
(* Specification SpecSlug: the slug of one document of the input tree      *)

MaxDepth == 2

DirNames == {"d", "e", "index"}
\* File names with the extension .md, among them the names whose part
\* before the extension is empty, "." or "..".
FileNames == {"index.md", "a.md", "a.b.md", ".md", "..md", "...md"}

RECURSIVE DirsOfDepth(_)
DirsOfDepth(n) ==
    IF n = 0 THEN {""}
    ELSE {IF d = "" THEN x ELSE d \o "/" \o x : d \in DirsOfDepth(n - 1), x \in DirNames}

SlugDirs == UNION {DirsOfDepth(n) : n \in 0..MaxDepth}
SlugPaths == {IF d = "" THEN f ELSE d \o "/" \o f : d \in SlugDirs, f \in FileNames}

InitSlug ==
    /\ relPath \in SlugPaths
    /\ slug = ""
    /\ slugPc = "start"
    /\ TreeIdle /\ SynIdle /\ DescIdle /\ MapIdle /\ BuildIdle /\ ViewIdle

\* The walk callback up to the slug of the document.
Derive ==
    /\ slugPc = "start"
    /\ slug' = DeriveSlug(relPath)
    /\ slugPc' = "done"
    /\ UNCHANGED <<relPath, treeVars, synVars, descVars, mapVars, buildVars, viewVars>>

NextSlug == Derive

SpecSlug == InitSlug /\ [][NextSlug]_vars

\* The directory and the file name (without .md) the path is written with.
WrittenDir(rel) == SubSeq(rel, 1, LastIndex(rel, "/") - 1)
WrittenName(rel) ==
    LET b == SubSeq(rel, LastIndex(rel, "/") + 1, Len(rel))
    IN SubSeq(b, 1, Len(b) - 3)

\* C3: the slug is "/" for index.md at the root, "/" + d for index.md in
\* directory d, "/" + d + "/" + filename for any other file in d and
\* "/" + filename for any other file at the root; it starts with "/".
C3_SlugDerivation ==
    slugPc = "done" =>
        LET d == WrittenDir(relPath)
            f == WrittenName(relPath)
        IN /\ HasPrefix(slug, "/")
           /\ slug = IF f = "index" THEN (IF d = "" THEN "/" ELSE "/" \o d)
                     ELSE IF d = "" THEN "/" \o f
                     ELSE "/" \o d \o "/" \o f

---------------------------------------------------------------------------
(* Inline directive expansion                                              *)

NoMatch == [start |-> 0, end |-> 0]

RECURSIVE FindWikiLink(_, _)
\* The leftmost match of wikiLinkRegex, \[\[(.*?)(?:\|(.*?))?\]\], at or
\* after position from: it starts at a "[[" and ends with the first "]]"
\* behind it, and "." matches no newline.
FindWikiLink(s, from) ==
    LET p == IndexFrom(s, "[[", from)
        q == IF p = 0 THEN 0 ELSE IndexFrom(s, "]]", p + 2)
        nl == IF p = 0 THEN 0 ELSE IndexFrom(s, "\n", p + 2)
    IN IF p = 0 \/ q = 0 THEN NoMatch
       ELSE IF nl # 0 /\ nl < q THEN FindWikiLink(s, p + 1)
       ELSE [start |-> p, end |-> q + 1]

RECURSIVE FindRefTag(_, _)
\* The leftmost match of refTagRegex, \{\{ref:(.*?)#(.*?)\}\}, at or after
\* position from: "{{ref:", the first "#" behind it, the first "}}" behind
\* that, all on one line.
FindRefTag(s, from) ==
    LET p == IndexFrom(s, "{{ref:", from)
        h == IF p = 0 THEN 0 ELSE IndexFrom(s, "#", p + 6)
        e == IF h = 0 THEN 0 ELSE IndexFrom(s, "}}", h + 1)
        nl == IF p = 0 THEN 0 ELSE IndexFrom(s, "\n", p + 6)
    IN IF p = 0 \/ h = 0 \/ e = 0 THEN NoMatch
       ELSE IF nl # 0 /\ nl < e THEN FindRefTag(s, p + 1)
       ELSE [start |-> p, end |-> e + 1]

Anchor(linkSlug, linkText) ==
    "<a href=\"#" \o linkSlug
    \o "\" class=\"text-blue-600 dark:text-blue-400 font-medium transition-colors hover:text-blue-800 dark:hover:text-blue-300\">"
    \o linkText \o "</a>"

Placeholder(refSlug, refID) ==
    "<div class=\"transclusion-placeholder p-4 border-l-4 border-purple-500 bg-gray-50 dark:bg-gray-800 my-4\" data-slug=\""
    \o refSlug \o "\" data-id=\"" \o refID
    \o "\"><span class=\"text-gray-400 text-sm animate-pulse\">Loading referenced content...</span></div>"

InvalidRef(inner) == "<span class=\"text-red-500\">[Invalid Ref: " \o inner \o "]</span>"

WithSlash(sl) == IF HasPrefix(sl, "/") THEN sl ELSE "/" \o sl

\* wikiReplace with the visible text read after the "/" was prepended.
wikiReplaceSlashedText(match) ==
    LET inner == SubSeq(match, 3, Len(match) - 2)
        parts == SplitN2(inner, "|")
        linkSlug == WithSlash(TrimSpace(parts[1]))
        linkText == IF Len(parts) > 1 THEN TrimSpace(parts[2]) ELSE linkSlug
    IN Anchor(linkSlug, linkText)

\* wikiReplace with the brackets left in the inner text.
wikiReplaceWholeMatch(match) ==
    LET parts == SplitN2(match, "|")
        linkSlug == TrimSpace(parts[1])
        linkText == IF Len(parts) > 1 THEN TrimSpace(parts[2]) ELSE linkSlug
    IN Anchor(WithSlash(linkSlug), linkText)

\* The replacement of one wiki link match.
wikiReplace(match) ==
    LET inner == SubSeq(match, 3, Len(match) - 2)
        parts == SplitN2(inner, "|")
        linkSlug == TrimSpace(parts[1])
        linkText == IF Len(parts) > 1 THEN TrimSpace(parts[2]) ELSE linkSlug
    IN Anchor(WithSlash(linkSlug), linkText)

\* refReplace with the anchor id left untrimmed.
refReplaceUntrimmedID(match) ==
    LET inner == SubSeq(match, 7, Len(match) - 2)
        parts == SplitN2(inner, "#")
    IN IF Len(parts) # 2 THEN InvalidRef(inner)
       ELSE Placeholder(WithSlash(TrimSpace(parts[1])), parts[2])

\* The replacement of one ref tag match.
refReplace(match) ==
    LET inner == SubSeq(match, 7, Len(match) - 2)
        parts == SplitN2(inner, "#")
    IN IF Len(parts) # 2 THEN InvalidRef(inner)
       ELSE Placeholder(WithSlash(TrimSpace(parts[1])), TrimSpace(parts[2]))

RECURSIVE ReplaceWikiLinks(_, _)
\* wikiLinkRegex.ReplaceAllStringFunc from position from on
ReplaceWikiLinks(s, from) ==
    LET m == FindWikiLink(s, from)
    IN IF m.start = 0 THEN SubSeq(s, from, Len(s))
       ELSE SubSeq(s, from, m.start - 1) \o wikiReplace(SubSeq(s, m.start, m.end))
            \o ReplaceWikiLinks(s, m.end + 1)

RECURSIVE ReplaceRefTags(_, _)
\* refTagRegex.ReplaceAllStringFunc from position from on
ReplaceRefTags(s, from) ==
    LET m == FindRefTag(s, from)
    IN IF m.start = 0 THEN SubSeq(s, from, Len(s))
       ELSE SubSeq(s, from, m.start - 1) \o refReplace(SubSeq(s, m.start, m.end))
            \o ReplaceRefTags(s, m.end + 1)

processCustomSyntax(content) == ReplaceRefTags(ReplaceWikiLinks(content, 1), 1)

---------------------------------------------------------------------------
(* Specification SpecSyntax: a rendered HTML text is written piece by      *)
(* piece and then expanded                                                 *)

MaxPieces == 2

Plain(s) == [kind |-> "plain", s |-> s, t |-> "", bar |-> FALSE]
Wiki(s) == [kind |-> "wiki", s |-> s, t |-> "", bar |-> FALSE]
WikiText(s, t) == [kind |-> "wiki", s |-> s, t |-> t, bar |-> TRUE]
Ref(s, a) == [kind |-> "ref", s |-> s, t |-> a, bar |-> FALSE]
BadRef(s) == [kind |-> "badref", s |-> s, t |-> "", bar |-> FALSE]
\* A link in a code span, a reference in a code block, a reference whose
\* slug is a link, and a link written inside the brackets of another.
CodeSpan(s) == [kind |-> "code", s |-> s, t |-> "", bar |-> FALSE]
CodeBlock(s, a) == [kind |-> "pre", s |-> s, t |-> a, bar |-> FALSE]
RefToLink(s, a) == [kind |-> "reflink", s |-> s, t |-> a, bar |-> FALSE]
Nested(s) == [kind |-> "nested", s |-> s, t |-> "", bar |-> FALSE]

Pieces ==
    {Plain("a"), Plain(" "), Plain("\n"), Plain("#"), Plain("}}"),
     Wiki("guide"), WikiText("guide", "Read the Guide"), Wiki(" guide"),
     WikiText(" /guide ", " Read "),
     Ref("guide", "sec"), Ref(" /guide ", " sec "),
     BadRef("onlyslug"),
     CodeSpan("guide"), CodeBlock("guide", "sec"), RefToLink("guide", "sec"),
     Nested("a")}

\* The text of a piece as it stands in the rendered HTML.
Render(p) ==
    CASE p.kind = "plain" -> p.s
      [] p.kind = "wiki" -> "[[" \o p.s \o (IF p.bar THEN "|" \o p.t ELSE "") \o "]]"
      [] p.kind = "ref" -> "{{ref:" \o p.s \o "#" \o p.t \o "}}"
      [] p.kind = "code" -> "<code>[[" \o p.s \o "]]</code>"
      [] p.kind = "pre" -> "<pre><code>{{ref:" \o p.s \o "#" \o p.t \o "}}</code></pre>"
      [] p.kind = "reflink" -> "{{ref:[[" \o p.s \o "]]#" \o p.t \o "}}"
      [] p.kind = "nested" -> "[[[[" \o p.s \o "]]]]"
      [] OTHER -> "{{ref:" \o p.s \o "}}"

RECURSIVE Source(_)
Source(ps) == IF ps = <<>> THEN "" ELSE Render(Head(ps)) \o Source(Tail(ps))

InitSyntax ==
    /\ text = <<>>
    /\ html = ""
    /\ synPc = "input"
    /\ TreeIdle /\ SlugIdle /\ DescIdle /\ MapIdle /\ BuildIdle /\ ViewIdle

\* The renderer emits one more piece of HTML.
Emit(p) ==
    /\ synPc = "input"
    /\ Len(text) < MaxPieces
    /\ text' = Append(text, p)
    /\ UNCHANGED <<html, synPc, treeVars, slugVars, descVars, mapVars, buildVars, viewVars>>

\* htmlContent = processCustomSyntax(htmlContent)
Expand ==
    /\ synPc = "input"
    /\ html' = processCustomSyntax(Source(text))
    /\ synPc' = "done"
    /\ UNCHANGED <<text, treeVars, slugVars, descVars, mapVars, buildVars, viewVars>>

NextSyntax == (\E p \in Pieces : Emit(p)) \/ Expand

SpecSyntax == InitSyntax /\ [][NextSyntax]_vars

KindsIn(ks) == \A i \in 1..Len(text) : text[i].kind \in ks
PiecesOf(kind) == {i \in 1..Len(text) : text[i].kind = kind}
CountOf(s, sub) ==
    Cardinality({i \in 1..(Len(s) - Len(sub) + 1) : SubSeq(s, i, i + Len(sub) - 1) = sub})

\* s without the white space around it.
Stripped(s) ==
    LET ink == {i \in 1..Len(s) : ~IsSpace(At(s, i))}
    IN IF ink = {} THEN ""
       ELSE SubSeq(s, CHOOSE i \in ink : \A j \in ink : i <= j,
                      CHOOSE i \in ink : \A j \in ink : i >= j)

\* s, with a "/" in front unless it starts with one.
Slashed(s) == IF s # "" /\ At(s, 1) = "/" THEN s ELSE "/" \o s

\* What a piece is to become: plain text itself, a link an anchor to the
\* trimmed slug showing the trimmed display text (the trimmed slug when
\* there is none), a reference a placeholder for the trimmed slug and id.
ExpectedPiece(p) ==
    CASE p.kind = "plain" -> p.s
      [] p.kind = "wiki" ->
            Anchor(Slashed(Stripped(p.s)), IF p.bar THEN Stripped(p.t) ELSE Stripped(p.s))
      [] OTHER -> Placeholder(Slashed(Stripped(p.s)), Stripped(p.t))

RECURSIVE Expected(_)
Expected(ps) == IF ps = <<>> THEN "" ELSE ExpectedPiece(Head(ps)) \o Expected(Tail(ps))

\* ExpectedPiece with the slug and the display text of a link as written.
LiteralPiece(p) ==
    IF p.kind = "wiki" THEN Anchor(Slashed(p.s), IF p.bar THEN p.t ELSE p.s)
    ELSE ExpectedPiece(p)

RECURSIVE ExpectedLiteral(_)
ExpectedLiteral(ps) ==
    IF ps = <<>> THEN "" ELSE LiteralPiece(Head(ps)) \o ExpectedLiteral(Tail(ps))

\* C4: a reference without "#" is replaced by an error span holding its
\* text, and no placeholder is emitted for it, whatever surrounds it.
C4_MalformedRefIsError ==
    synPc = "done" =>
        \A i \in PiecesOf("badref") :
            /\ Contains(html, InvalidRef(text[i].s))
            /\ ~Contains(html, "data-slug=\"/" \o text[i].s)

C7_ExpansionIdempotent ==
    (synPc = "done" /\ KindsIn({"plain", "wiki"})) => processCustomSyntax(html) = html

\* C7 witness: a text with a link and plain characters has been expanded
\* into something else than itself.
C7_Witness ==
    /\ synPc = "done" /\ KindsIn({"plain", "wiki"})
    /\ PiecesOf("wiki") # {} /\ PiecesOf("plain") # {}
    /\ html # Source(text)
    /\ processCustomSyntax(html) = html

---------------------------------------------------------------------------
(* Description derivation                                                  *)

\* A node of the parsed document: its kind, the source text of a Text
\* node's segment, and its children.
Node(kind, children) == [kind |-> kind, value |-> "", children |-> children]
Txt(v) == [kind |-> "Text", value |-> v, children |-> <<>>]

RECURSIVE ParagraphTextDeep(_)
\* ParagraphText with the text inside inline formatting nodes included.
ParagraphTextDeep(children) ==
    IF children = <<>> THEN ""
    ELSE (IF Head(children).kind = "Text" THEN Head(children).value
          ELSE ParagraphTextDeep(Head(children).children))
         \o ParagraphTextDeep(Tail(children))

RECURSIVE ParagraphText(_)
\* The segments of the direct children of a paragraph that are Text nodes.
ParagraphText(children) ==
    IF children = <<>> THEN ""
    ELSE (IF Head(children).kind = "Text" THEN Head(children).value ELSE "")
         \o ParagraphText(Tail(children))

DescLimit == 160
DescKeep == 157

\* if len(description) > 160 { description = description[:157] + "..." }
Truncate(description) ==
    IF Len(description) > DescLimit
    THEN SubSeq(description, 1, DescKeep) \o "..."
    ELSE description

RECURSIVE FirstParagraph(_)
\* The description taken from the first top-level paragraph, "" without one.
FirstParagraph(nodes) ==
    IF nodes = <<>> THEN ""
    ELSE IF Head(nodes).kind = "Paragraph"
         THEN Truncate(ParagraphText(Head(nodes).children))
    ELSE FirstParagraph(Tail(nodes))

\* RenderResult.Description of ProcessMarkdown
Description(meta, nodes) ==
    IF /\ "description" \in DOMAIN meta
       /\ meta["description"].tag = "string"
       /\ meta["description"].str # ""
    THEN meta["description"].str
    ELSE FirstParagraph(nodes)

\* PageData.Description of the monolithic build
mainDescription(meta, nodes) ==
    IF getString(meta, "description") # ""
    THEN getString(meta, "description")
    ELSE FirstParagraph(nodes)

---------------------------------------------------------------------------
(* Specification SpecDesc: one document is given to the modular processor  *)
(* and to the monolithic build                                             *)

Slack == 2
MaxWide == 1
MaxNodes == 2

RECURSIVE Rep(_, _)
\* n copies of s
Rep(s, n) ==
    IF n <= 0 THEN ""
    ELSE LET half == Rep(s, n \div 2)
         IN half \o half \o (IF n % 2 = 1 THEN s ELSE "")

\* A text of n bytes that starts with w two-byte runes.
LongText(n, w) == Rep("^~", w) \o Rep("x", n - 2 * w)

LongTexts ==
    {LongText(n, w) : n \in (DescLimit - Slack)..(DescLimit + Slack), w \in 0..MaxWide}

Para(children) == Node("Paragraph", children)
Em(v) == Node("Emphasis", <<Txt(v)>>)

\* The top-level nodes a document is made of, for a long text t.
NodePool(t) ==
    {Node("Heading", <<Txt("Title")>>),
     Node("Blockquote", <<Para(<<Txt("quoted")>>)>>),
     Para(<<Txt(t)>>),
     Para(<<Txt("Hi "), Em("bold"), Txt(t)>>),
     Para(<<Em("bold")>>),
     Para(<<Txt("Short one.")>>)}

DescDocs ==
    UNION {UNION {[1..k -> NodePool(t)] : k \in 0..MaxNodes} : t \in LongTexts}

DescMetas ==
    {<<>>} \cup {[description |-> v] :
                    v \in {StrVal(""), StrVal("A summary."),
                           StrVal(Rep("d", DescLimit + 1)), IntVal(7)}}

InitDesc ==
    /\ metaData \in DescMetas
    /\ doc \in DescDocs
    /\ resDesc = ""
    /\ mainDesc = ""
    /\ descPc = {}
    /\ TreeIdle /\ SlugIdle /\ SynIdle /\ MapIdle /\ BuildIdle /\ ViewIdle

\* ProcessMarkdown(source) of the modular processor
RunProcessMarkdown ==
    /\ "modular" \notin descPc
    /\ resDesc' = Description(metaData, doc)
    /\ descPc' = descPc \cup {"modular"}
    /\ UNCHANGED <<metaData, doc, mainDesc, treeVars, slugVars, synVars, mapVars, buildVars, viewVars>>

\* The walk callback of the monolithic build on the same document
RunMonolith ==
    /\ "monolith" \notin descPc
    /\ mainDesc' = mainDescription(metaData, doc)
    /\ descPc' = descPc \cup {"monolith"}
    /\ UNCHANGED <<metaData, doc, resDesc, treeVars, slugVars, synVars, mapVars, buildVars, viewVars>>

NextDesc == RunProcessMarkdown \/ RunMonolith

SpecDesc == InitDesc /\ [][NextDesc]_vars

\* The number of characters of a text: its bytes that start a rune.
RuneStarts(s) == {i \in 1..Len(s) : At(s, i) # "~"}
RuneCount(s) == Cardinality(RuneStarts(s))

\* The first k characters of a text.
FirstRunes(s, k) ==
    IF RuneCount(s) <= k THEN s
    ELSE LET next == CHOOSE i \in RuneStarts(s) :
                        Cardinality({j \in RuneStarts(s) : j < i}) = k
         IN SubSeq(s, 1, next - 1)

RECURSIVE Concat(_)
Concat(strs) == IF strs = <<>> THEN "" ELSE Head(strs) \o Concat(Tail(strs))

HasParagraph(nodes) == \E i \in 1..Len(nodes) : nodes[i].kind = "Paragraph"

\* The text runs that are direct children of the first top-level paragraph.
FirstParagraphRuns(nodes) ==
    LET first == CHOOSE i \in 1..Len(nodes) :
                    /\ nodes[i].kind = "Paragraph"
                    /\ \A j \in 1..(i - 1) : nodes[j].kind # "Paragraph"
        runs == SelectSeq(nodes[first].children, LAMBDA c : c.kind = "Text")
    IN Concat([i \in 1..Len(runs) |-> runs[i].value])

NoDescriptionGiven(meta) ==
    "description" \notin DOMAIN meta \/ meta["description"] = StrVal("")

DescriptionResults ==
    {resDesc : r \in descPc \cap {"modular"}} \cup {mainDesc : r \in descPc \cap {"monolith"}}

\* C8: a description taken from the first paragraph is the paragraph's text
\* when that has at most 160 characters, and otherwise its first 157
\* characters followed by "...", 160 characters in all.
C8_TruncatedTo160Characters ==
    (NoDescriptionGiven(metaData) /\ HasParagraph(doc)) =>
        \A d \in DescriptionResults :
            LET t == FirstParagraphRuns(doc)
            IN IF RuneCount(t) > DescLimit
               THEN RuneCount(d) = DescLimit /\ d = FirstRunes(t, DescKeep) \o "..."
               ELSE d = t

GivenDescription(meta) ==
    IF "description" \in DOMAIN meta /\ meta["description"].tag = "string"
    THEN meta["description"].str
    ELSE ""

\* C9: the description of ProcessMarkdown is the metadata description, as
\* it is, when that is a non-empty string; otherwise it is made of the
\* direct text runs of the first top-level paragraph alone (whole, or cut
\* and ended with "..."), and it is empty when there is no such paragraph.
C9_DescriptionSource ==
    "modular" \in descPc =>
        IF GivenDescription(metaData) # "" THEN resDesc = GivenDescription(metaData)
        ELSE IF ~HasParagraph(doc) THEN resDesc = ""
        ELSE LET t == FirstParagraphRuns(doc)
             IN \/ resDesc = t
                \/ Len(t) > DescKeep /\ resDesc = SubSeq(t, 1, DescKeep) \o "..."

\* C9 witness: without a usable metadata description, a document whose
\* first top-level node holds a nested paragraph and whose first top-level
\* paragraph mixes text runs with an emphasis node has been processed.
C9_Witness ==
    /\ "modular" \in descPc
    /\ GivenDescription(metaData) = ""
    /\ Len(doc) = 2
    /\ doc[1].kind = "Blockquote"
    /\ doc[2].kind = "Paragraph"
    /\ \E i \in 1..Len(doc[2].children) : doc[2].children[i].kind = "Emphasis"
    /\ HasPrefix(resDesc, "Hi x")

---------------------------------------------------------------------------
(* Sitemap emitter                                                         *)

BaseURL == "https://mysite.com"

SitemapHeader ==
    "<?xml version=\"1.0\" encoding=\"UTF-8\"?>" \o "\n"
    \o "<urlset xmlns=\"http://www.sitemaps.org/schemas/sitemap/0.9\">" \o "\n"

\* fullUrl with the fragment form used for the root slug as well.
FullUrlAlwaysFragment(sl) == BaseURL \o "/#" \o sl

\* fullUrl of one slug
FullUrl(sl) == IF sl = "/" THEN BaseURL \o "/" ELSE BaseURL \o "/#" \o sl

\* The lines written for one slug.
UrlEntry(sl, day) ==
    "  <url>\n"
    \o "    <loc>" \o FullUrl(sl) \o "</loc>\n"
    \o "    <lastmod>" \o day \o "</lastmod>\n"
    \o "    <changefreq>weekly</changefreq>\n"
    \o "  </url>\n"

RECURSIVE UrlEntries(_, _)
\* for _, slug := range slugs { ... }
UrlEntries(slugs, day) ==
    IF slugs = <<>> THEN "" ELSE UrlEntry(Head(slugs), day) \o UrlEntries(Tail(slugs), day)

RECURSIVE Deduplicated(_)
Deduplicated(slugs) ==
    IF slugs = <<>> THEN <<>>
    ELSE LET front == Deduplicated(SubSeq(slugs, 1, Len(slugs) - 1))
             last == slugs[Len(slugs)]
         IN IF \E i \in 1..Len(front) : front[i] = last THEN front
            ELSE Append(front, last)

\* GenerateXMLSitemap writing every slug once only.
GenerateXMLSitemapOncePerSlug(slugs, day) ==
    SitemapHeader \o UrlEntries(Deduplicated(slugs), day) \o "</urlset>"

\* The content of sitemap.xml written by GenerateXMLSitemap(slugs).
GenerateXMLSitemap(slugs, day) ==
    SitemapHeader \o UrlEntries(slugs, day) \o "</urlset>"

\* The content of sitemap.xml written by the monolithic build.
generateXMLSitemap(slugs, day) ==
    SitemapHeader \o UrlEntries(slugs, day) \o "</urlset>"

---------------------------------------------------------------------------
(* Specification SpecSitemap: the walk collects slugs, then the sitemap is *)
(* written                                                                 *)

MaxSlugs == 4

MapSlugs == {"/", "/a", "/a/b"}
Days == {"2026-10-30", "2027-01-01"}

InitSitemap ==
    /\ xmlUrls = <<>>
    /\ today \in Days
    /\ sitemap = ""
    /\ sitemapMono = ""
    /\ mapPc = "collect"
    /\ TreeIdle /\ SlugIdle /\ SynIdle /\ DescIdle /\ BuildIdle /\ ViewIdle

\* xmlUrls = append(xmlUrls, slug)
Collect(sl) ==
    /\ mapPc = "collect"
    /\ Len(xmlUrls) < MaxSlugs
    /\ xmlUrls' = Append(xmlUrls, sl)
    /\ UNCHANGED <<today, sitemap, sitemapMono, mapPc, treeVars, slugVars, synVars, descVars, buildVars, viewVars>>

\* GenerateXMLSitemap(xmlUrls) of the modular build
WriteSitemap ==
    /\ mapPc = "collect"
    /\ sitemap' = GenerateXMLSitemap(xmlUrls, today)
    /\ mapPc' = "modular"
    /\ UNCHANGED <<xmlUrls, today, sitemapMono, treeVars, slugVars, synVars, descVars, buildVars, viewVars>>

\* generateXMLSitemap(xmlUrls) of the monolithic build
WriteSitemapMono ==
    /\ mapPc = "collect"
    /\ sitemapMono' = generateXMLSitemap(xmlUrls, today)
    /\ mapPc' = "monolith"
    /\ UNCHANGED <<xmlUrls, today, sitemap, treeVars, slugVars, synVars, descVars, buildVars, viewVars>>

NextSitemap == (\E sl \in MapSlugs : Collect(sl)) \/ WriteSitemap \/ WriteSitemapMono

SpecSitemap == InitSitemap /\ [][NextSitemap]_vars

\* The file the build that ran has written.
WrittenSitemap == IF mapPc = "modular" THEN sitemap ELSE sitemapMono

RECURSIVE LocsFrom(_, _)
\* The texts of the loc elements of a sitemap, in file order.
LocsFrom(xml, from) ==
    LET open == IndexFrom(xml, "<loc>", from)
        close == IF open = 0 THEN 0 ELSE IndexFrom(xml, "</loc>", open)
    IN IF open = 0 \/ close = 0 THEN <<>>
       ELSE <<SubSeq(xml, open + 5, close - 1)>> \o LocsFrom(xml, close + 6)

\* C10: the sitemap has one url entry per element of the slug list,
\* duplicates included, and the i-th entry's location ends with the i-th
\* slug of the list.
C10_EntryPerSlugInOrder ==
    mapPc \in {"modular", "monolith"} =>
        LET locs == LocsFrom(WrittenSitemap, 1)
        IN /\ CountOf(WrittenSitemap, "<url>") = Len(xmlUrls)
           /\ CountOf(WrittenSitemap, "</url>") = Len(xmlUrls)
           /\ Len(locs) = Len(xmlUrls)
           /\ \A i \in 1..Len(xmlUrls) :
                 /\ HasPrefix(locs[i], BaseURL)
                 /\ HasSuffix(locs[i], xmlUrls[i])

\* C10 witness: a sitemap has been written for a list that repeats a slug
\* and is not in sorted order.
C10_Witness ==
    /\ mapPc = "modular"
    /\ Len(xmlUrls) >= 3
    /\ xmlUrls[1] = "/a/b" /\ xmlUrls[2] = "/" /\ xmlUrls[3] = "/a/b"
    /\ CountOf(sitemap, "<url>") = Len(xmlUrls)

RECURSIVE ElementsFrom(_, _, _)
\* The texts of the elements named tag of a sitemap, in file order.
ElementsFrom(xml, tag, from) ==
    LET o == "<" \o tag \o ">"
        c == "</" \o tag \o ">"
        open == IndexFrom(xml, o, from)
        close == IF open = 0 THEN 0 ELSE IndexFrom(xml, c, open)
    IN IF open = 0 \/ close = 0 THEN <<>>
       ELSE <<SubSeq(xml, open + Len(o), close - 1)>>
            \o ElementsFrom(xml, tag, close + Len(c))

\* C11: the location of the slug "/" is the base URL and "/", without a
\* "#"; the location of any other slug s is the base URL, "/#" and s; every
\* entry carries the date of the run and the change frequency "weekly".
C11_LocationDateFrequency ==
    mapPc = "modular" =>
        LET locs == ElementsFrom(sitemap, "loc", 1)
            mods == ElementsFrom(sitemap, "lastmod", 1)
            freqs == ElementsFrom(sitemap, "changefreq", 1)
        IN /\ Len(locs) = Len(xmlUrls)
           /\ Len(mods) = Len(xmlUrls)
           /\ Len(freqs) = Len(xmlUrls)
           /\ \A i \in 1..Len(xmlUrls) :
                 /\ xmlUrls[i] = "/" =>
                       locs[i] = BaseURL \o "/" /\ ~Contains(locs[i], "#")
                 /\ xmlUrls[i] # "/" => locs[i] = BaseURL \o "/#" \o xmlUrls[i]
                 /\ mods[i] = today
                 /\ freqs[i] = "weekly"

\* C11 witness: a sitemap written for a list holding the root slug and
\* another slug.
C11_Witness ==
    /\ mapPc = "modular"
    /\ Len(xmlUrls) = 2 /\ xmlUrls[1] = "/a" /\ xmlUrls[2] = "/"
    /\ Contains(sitemap, "<loc>https://mysite.com/#/a</loc>")
    /\ Contains(sitemap, "<loc>https://mysite.com/</loc>")
    /\ Contains(sitemap, "<lastmod>" \o today \o "</lastmod>")

---------------------------------------------------------------------------
(* The build: main of the monolithic program                               *)

InputDir == "./content"
OutputDir == "./public"

\* A file of the input tree: its path relative to InputDir and, for a
\* document, what the markdown library makes of its bytes: the front
\* matter, the rendered HTML and the parsed top-level nodes.
File(path, meta, rendered, nodes) ==
    [path |-> path, meta |-> meta, html |-> rendered, doc |-> nodes]

\* A fault: the file system operation op fails on path.
Fault(op, path) == [op |-> op, path |-> path]

RECURSIVE DirsAbove(_)
\* The directories between InputDir (".") and the file at path.
DirsAbove(path) ==
    LET d == Dir(path) IN IF d = "." THEN {"."} ELSE {d} \cup DirsAbove(d)

RECURSIVE LessElems(_, _)
\* Lexical order of paths, element by element.
LessElems(a, b) ==
    IF a = <<>> THEN b # <<>>
    ELSE IF b = <<>> THEN FALSE
    ELSE IF Head(a) = Head(b) THEN LessElems(Tail(a), Tail(b))
    ELSE LessStr(Head(a), Head(b))

\* WalkBefore with the names of a directory visited in descending order.
WalkBeforeDescending(p, q) ==
    \/ p = "." /\ q # "."
    \/ p # "." /\ q # "." /\ LessElems(Split(q, "/"), Split(p, "/"))
       /\ ~HasPrefix(p, q \o "/")
    \/ p # "." /\ q # "." /\ HasPrefix(q, p \o "/")

\* filepath.WalkDir visits p before q: the root first, a directory before
\* its entries, the entries of a directory in the order of their names.
WalkBefore(p, q) ==
    \/ p = "." /\ q # "."
    \/ p # "." /\ q # "." /\ LessElems(Split(p, "/"), Split(q, "/"))

\* The entries filepath.WalkDir finds under InputDir.
WalkEntries(files) ==
    {[path |-> d, isDir |-> TRUE] : d \in {"."} \cup UNION {DirsAbove(f.path) : f \in files}}
    \cup {[path |-> f.path, isDir |-> FALSE] : f \in files}

RECURSIVE WalkOrder(_)
\* The entries in the order filepath.WalkDir visits them.
WalkOrder(entries) ==
    IF entries = {} THEN <<>>
    ELSE LET first == CHOOSE e \in entries :
                          \A o \in entries \ {e} : WalkBefore(e.path, o.path)
         IN <<first>> \o WalkOrder(entries \ {first})

\* The path the callback receives for the entry at rel.
WalkPath(rel) == IF rel = "." THEN InputDir ELSE Join(InputDir, rel)

\* source, _ := os.ReadFile(path): a failed read leaves source empty, and
\* an empty source has no front matter, no nodes and renders to nothing.
ReadFile(f, flts) ==
    IF Fault("ReadFile", f.path) \in flts THEN File(f.path, <<>>, "", <<>>) ELSE f

\* The PageData built from the document src.
PageOf(src) ==
    [Title       |-> FinalTitle(src.meta, src.path),
     Content     |-> processCustomSyntax(src.html),
     Published   |-> getString(src.meta, "published on"),
     Updated     |-> getString(src.meta, "updated on"),
     Category    |-> getString(src.meta, "category"),
     Description |-> mainDescription(src.meta, src.doc),
     Weight      |-> getInt(src.meta, "weight")]

\* PagesWith keeping the page a slug already has.
PagesWithKeepFirst(pgs, sl, page) ==
    [s \in DOMAIN pgs \cup {sl} |-> IF s \in DOMAIN pgs THEN pgs[s] ELSE page]

\* site.Pages[slug] = page
PagesWith(pgs, sl, page) ==
    [s \in DOMAIN pgs \cup {sl} |-> IF s = sl THEN page ELSE pgs[s]]

\* A file of OutputDir: what wrote it and what it holds.
OutFile(kind, content, site) == [kind |-> kind, text |-> content, site |-> site]
NoSite == [Pages |-> <<>>, Menu |-> <<>>]
StaleFile == OutFile("stale", "", NoSite)

\* os.WriteFile(filepath.Join(OutputDir, name), ...): fails when the
\* directory is missing or the operation is faulty, and then leaves the
\* directory as it was.
WriteFile(out, flts, name, file) ==
    IF ~out.exists \/ Fault("WriteFile", name) \in flts THEN out
    ELSE [out EXCEPT !.files =
             [n \in DOMAIN out.files \cup {name} |->
                 IF n = name THEN file ELSE out.files[n]]]

\* os.RemoveAll(OutputDir); os.Mkdir(OutputDir, 0755), errors ignored
RemoveAll(out, flts) ==
    IF out.exists /\ Fault("RemoveAll", OutputDir) \in flts THEN out
    ELSE [exists |-> FALSE, files |-> <<>>]

Mkdir(out, flts) ==
    IF out.exists \/ Fault("Mkdir", OutputDir) \in flts THEN out
    ELSE [exists |-> TRUE, files |-> <<>>]

---------------------------------------------------------------------------
(* Specification SpecBuild: one run of main over an input tree, with the   *)
(* file system operations of the run succeeding or failing                 *)

MaxFiles == 2
MaxFaults == 1

Artifacts == {"sitemap.xml", "db.json", "index.html"}

HiDoc == <<Para(<<Txt("Hi")>>)>>

BuildFiles ==
    {File("index.md", [k \in {"title"} |-> StrVal("Home")], "<p>Hi</p>", HiDoc),
     File("index.md", <<>>, "<p>Hi</p>", HiDoc),
     File("guide/intro.md",
          [k \in {"title", "weight"} |->
              IF k = "title" THEN StrVal("Introduction") ELSE IntVal(1)],
          "<p>See [[/]]</p>", <<Para(<<Txt("See [[/]]")>>)>>),
     File("d.md", <<>>, "", <<>>),
     File("d.md", [k \in {"title"} |-> StrVal("Index")], "", <<>>),
     File("d/index.md", <<>>, "<p>Hi</p>", HiDoc),
     File("my-notes.md", [k \in {"title"} |-> StrVal("")], "<p>Hi</p>", HiDoc),
     File("my-notes.md", [k \in {"title"} |-> NilVal], "<p>Hi</p>", HiDoc),
     File("typed.md",
          [k \in {"title", "published on", "updated on", "category",
                  "description", "weight"} |->
              CASE k = "title" -> IntVal(7)
                [] k = "published on" -> NilVal
                [] k = "updated on" -> FloatVal(15)
                [] k = "category" -> BoolVal(TRUE)
                [] k = "description" -> IntVal(3)
                [] k = "weight" -> FloatVal(15)],
          "<p>Hi</p>", HiDoc),
     File("typed.md",
          [k \in {"category", "weight"} |->
              IF k = "category" THEN StrVal("General") ELSE StrVal("3")],
          "<p>Hi</p>", HiDoc),
     File("notes.txt", <<>>, "", <<>>)}

\* The input trees: sets of files with different paths.
Trees ==
    {t \in SUBSET BuildFiles :
        /\ Cardinality(t) <= MaxFiles
        /\ \A f, g \in t : f.path = g.path => f = g}

\* The operations of a run over the tree t that can fail.
FaultsOf(t) ==
    {Fault("RemoveAll", OutputDir), Fault("Mkdir", OutputDir)}
    \cup {Fault("WriteFile", n) : n \in Artifacts}
    \cup {Fault("ReadFile", f.path) : f \in {g \in t : Ext(g.path) = ".md"}}
    \cup {Fault("ReadDir", e.path) : e \in {x \in WalkEntries(t) : x.isDir}}

\* The date of the run.
BuildDay == "2026-10-30"

\* OutputDir before the run: absent, or left by an earlier run.
OutDirs ==
    {[exists |-> FALSE, files |-> <<>>],
     [exists |-> TRUE, files |-> [n \in {"old.html", "db.json"} |-> StaleFile]]}

InitBuild ==
    /\ inputDir \in {[exists |-> FALSE, files |-> {}]}
                    \cup {[exists |-> TRUE, files |-> t] : t \in Trees}
    /\ faults \in {F \in SUBSET FaultsOf(inputDir.files) : Cardinality(F) <= MaxFaults}
    /\ outDir \in OutDirs
    /\ today = BuildDay
    /\ buildPc = "start"
    /\ pending = <<>> /\ pages = <<>> /\ stdout = <<>> /\ readFiles = {}
    /\ menu = <<>> /\ inserted = {} /\ xmlUrls = <<>>
    /\ sitemap = "" /\ sitemapMono = "" /\ mapPc = "idle"
    /\ SlugIdle /\ SynIdle /\ DescIdle /\ ViewIdle

\* What no step of main changes.
buildFrame ==
    <<inserted, slugVars, synVars, descVars, sitemap, sitemapMono, mapPc,
      inputDir, faults, today, viewVars>>

\* InputMissing placed after the output directory has been recreated.
InputMissingAfterCleaning ==
    /\ buildPc = "start"
    /\ ~inputDir.exists
    /\ outDir' = Mkdir(RemoveAll(outDir, faults), faults)
    /\ stdout' = stdout \o <<"--- BUILDING OPTIMIZED SITE ---",
                             "Error: 'content' folder missing.">>
    /\ buildPc' = "stopped"
    /\ UNCHANGED <<pending, pages, readFiles, menu, xmlUrls, buildFrame>>

\* if _, err := os.Stat(InputDir); os.IsNotExist(err) { ...; return }
InputMissing ==
    /\ buildPc = "start"
    /\ ~inputDir.exists
    /\ stdout' = stdout \o <<"--- BUILDING OPTIMIZED SITE ---",
                             "Error: 'content' folder missing.">>
    /\ buildPc' = "stopped"
    /\ UNCHANGED <<outDir, pending, pages, readFiles, menu, xmlUrls, buildFrame>>

\* os.RemoveAll(OutputDir); os.Mkdir(OutputDir, 0755); the walk begins
PrepareOutput ==
    /\ buildPc = "start"
    /\ inputDir.exists
    /\ stdout' = Append(stdout, "--- BUILDING OPTIMIZED SITE ---")
    /\ outDir' = Mkdir(RemoveAll(outDir, faults), faults)
    /\ pending' = WalkOrder(WalkEntries(inputDir.files))
    /\ buildPc' = "walk"
    /\ UNCHANGED <<pages, readFiles, menu, xmlUrls, buildFrame>>

\* The callback is given an error (a directory cannot be read), returns
\* it, and main prints it and returns.
WalkError ==
    /\ buildPc = "walk" /\ pending # <<>>
    /\ Head(pending).isDir
    /\ Fault("ReadDir", Head(pending).path) \in faults
    /\ stdout' = Append(stdout, "Error walking directory: open "
                                \o WalkPath(Head(pending).path)
                                \o ": permission denied")
    /\ buildPc' = "aborted"
    /\ UNCHANGED <<outDir, pending, pages, readFiles, menu, xmlUrls, buildFrame>>

\* if d.IsDir() { return nil }
SkipDir ==
    /\ buildPc = "walk" /\ pending # <<>>
    /\ Head(pending).isDir
    /\ Fault("ReadDir", Head(pending).path) \notin faults
    /\ pending' = Tail(pending)
    /\ UNCHANGED <<outDir, buildPc, pages, stdout, readFiles, menu, xmlUrls, buildFrame>>

\* SkipOther with the extension tested after the slug has been appended.
SkipOtherAfterAppend ==
    /\ buildPc = "walk" /\ pending # <<>>
    /\ ~Head(pending).isDir
    /\ Ext(Head(pending).path) # ".md"
    /\ xmlUrls' = Append(xmlUrls, DeriveSlug(Head(pending).path))
    /\ pending' = Tail(pending)
    /\ UNCHANGED <<outDir, buildPc, pages, stdout, readFiles, menu, buildFrame>>

\* if filepath.Ext(path) != ".md" { return nil }
SkipOther ==
    /\ buildPc = "walk" /\ pending # <<>>
    /\ ~Head(pending).isDir
    /\ Ext(Head(pending).path) # ".md"
    /\ pending' = Tail(pending)
    /\ UNCHANGED <<outDir, buildPc, pages, stdout, readFiles, menu, xmlUrls, buildFrame>>

\* ProcessDoc appending the slug only when the list does not hold it yet.
ProcessDocOncePerSlug ==
    /\ buildPc = "walk" /\ pending # <<>>
    /\ ~Head(pending).isDir
    /\ Ext(Head(pending).path) = ".md"
    /\ LET f == CHOOSE g \in inputDir.files : g.path = Head(pending).path
           src == ReadFile(f, faults)
           sl == DeriveSlug(f.path)
       IN /\ readFiles' = readFiles \cup {WalkPath(f.path)}
          /\ pages' = PagesWith(pages, sl, PageOf(src))
          /\ menu' = MenuWith(menu, [relPath |-> f.path, meta |-> src.meta])
          /\ xmlUrls' = IF \E i \in 1..Len(xmlUrls) : xmlUrls[i] = sl
                        THEN xmlUrls ELSE Append(xmlUrls, sl)
    /\ pending' = Tail(pending)
    /\ UNCHANGED <<outDir, buildPc, stdout, buildFrame>>

\* The callback on a document: read, parse, render, page, menu, slug list.
ProcessDoc ==
    /\ buildPc = "walk" /\ pending # <<>>
    /\ ~Head(pending).isDir
    /\ Ext(Head(pending).path) = ".md"
    /\ LET f == CHOOSE g \in inputDir.files : g.path = Head(pending).path
           src == ReadFile(f, faults)
           sl == DeriveSlug(f.path)
       IN /\ readFiles' = readFiles \cup {WalkPath(f.path)}
          /\ pages' = PagesWith(pages, sl, PageOf(src))
          /\ menu' = MenuWith(menu, [relPath |-> f.path, meta |-> src.meta])
          /\ xmlUrls' = Append(xmlUrls, sl)
    /\ pending' = Tail(pending)
    /\ UNCHANGED <<outDir, buildPc, stdout, buildFrame>>

\* The walk has returned without an error: generateXMLSitemap(xmlUrls)
WriteSitemapXml ==
    /\ buildPc = "walk" /\ pending = <<>>
    /\ outDir' = WriteFile(outDir, faults, "sitemap.xml",
                           OutFile("sitemap", generateXMLSitemap(xmlUrls, today), NoSite))
    /\ buildPc' = "db"
    /\ UNCHANGED <<pending, pages, stdout, readFiles, menu, xmlUrls, buildFrame>>

\* jsonBytes, _ := json.Marshal(site); os.WriteFile(".../db.json", ...)
WriteDb ==
    /\ buildPc = "db"
    /\ outDir' = WriteFile(outDir, faults, "db.json",
                           OutFile("db", "", [Pages |-> pages, Menu |-> menu]))
    /\ buildPc' = "shell"
    /\ UNCHANGED <<pending, pages, stdout, readFiles, menu, xmlUrls, buildFrame>>

\* writeAppShell(".../index.html"); fmt.Println("--- DONE ---")
WriteAppShell ==
    /\ buildPc = "shell"
    /\ outDir' = WriteFile(outDir, faults, "index.html", OutFile("shell", "", NoSite))
    /\ stdout' = Append(stdout, "--- DONE ---")
    /\ buildPc' = "done"
    /\ UNCHANGED <<pending, pages, readFiles, menu, xmlUrls, buildFrame>>

NextBuild ==
    \/ InputMissing \/ PrepareOutput
    \/ WalkError \/ SkipDir \/ SkipOther \/ ProcessDoc
    \/ WriteSitemapXml \/ WriteDb \/ WriteAppShell

SpecBuild == InitBuild /\ [][NextBuild]_vars

\* The build of the two documents index.md (title Home) and
\* guide/intro.md (title Introduction, weight 1) has finished, no file
\* system operation having failed.
TwoDocumentBuildDone ==
    /\ buildPc = "done"
    /\ faults = {}
    /\ {f.path : f \in inputDir.files} = {"index.md", "guide/intro.md"}
    /\ \E f \in inputDir.files : f.path = "index.md" /\ getString(f.meta, "title") = "Home"

\* The page map and the root menu the two-document build must produce:
\* pages "/" and "/guide/intro"; the leaf "/" first, then the folder Guide
\* whose only child is the leaf Introduction.
TwoDocumentSite ==
    /\ DOMAIN pages = {"/", "/guide/intro"}
    /\ "db.json" \in DOMAIN outDir.files
    /\ outDir.files["db.json"].site = [Pages |-> pages, Menu |-> menu]
    /\ Len(menu) = 2
    /\ ~menu[1].IsFolder /\ menu[1].Slug = "/"
    /\ menu[2].IsFolder /\ menu[2].Title = "Guide"
    /\ Len(menu[2].Children) = 1
    /\ ~menu[2].Children[1].IsFolder
    /\ menu[2].Children[1].Title = "Introduction"

\* C12 as stated: the two-document build gives the pages "/" and
\* "/guide/intro", the menu [leaf "/", folder Guide [leaf Introduction]] and
\* a sitemap of two url entries whose first location has no "#".
C12_FirstEntryWithoutFragment ==
    TwoDocumentBuildDone =>
        /\ TwoDocumentSite
        /\ "sitemap.xml" \in DOMAIN outDir.files
        /\ LET locs == ElementsFrom(outDir.files["sitemap.xml"].text, "loc", 1)
           IN Len(locs) = 2 /\ ~Contains(locs[1], "#")

\* C12 amended: as above, but the walk visits guide/intro.md before
\* index.md, so it is the second location of the sitemap, the root's, that
\* has no "#"; the first is that of /guide/intro.
C12_TwoDocumentBuild ==
    TwoDocumentBuildDone =>
        /\ TwoDocumentSite
        /\ "sitemap.xml" \in DOMAIN outDir.files
        /\ LET locs == ElementsFrom(outDir.files["sitemap.xml"].text, "loc", 1)
           IN /\ Len(locs) = 2
              /\ locs[1] = BaseURL \o "/#/guide/intro"
              /\ locs[2] = BaseURL \o "/" /\ ~Contains(locs[2], "#")

\* C12 witness: the two-document build has finished and written its files.
C12_Witness ==
    /\ TwoDocumentBuildDone
    /\ xmlUrls = <<"/guide/intro", "/">>
    /\ DOMAIN outDir.files = Artifacts
    /\ pages["/"].Title = "Home" /\ pages["/guide/intro"].Weight = 1

\* The slugs of the leaves of a menu tree.
RECURSIVE LeafSlugs(_)
LeafSlugs(nodes) ==
    UNION {IF nodes[i].IsFolder THEN LeafSlugs(nodes[i].Children) ELSE {nodes[i].Slug} :
              i \in 1..Len(nodes)}

\* The files of OutputDir written by this run.
WrittenArtifacts == {n \in DOMAIN outDir.files : outDir.files[n].kind # "stale"}

\* C13: once a document whose read fails has been visited, the run is
\* aborted with the document's path reported, no artifact is ever written,
\* and the document's slug is in neither the page map, the menu nor the
\* slug list of the sitemap.
C13_ReadFailureAborts ==
    \A flt \in faults :
        (flt.op = "ReadFile" /\ WalkPath(flt.path) \in readFiles) =>
            /\ buildPc = "aborted"
            /\ \E i \in 1..Len(stdout) : Contains(stdout[i], flt.path)
            /\ WrittenArtifacts = {}
            /\ DeriveSlug(flt.path) \notin DOMAIN pages
            /\ DeriveSlug(flt.path) \notin LeafSlugs(menu)
            /\ \A i \in 1..Len(xmlUrls) : xmlUrls[i] # DeriveSlug(flt.path)

\* C14: when the input directory does not exist, every step of the run
\* reports the error and stops: nothing is read, no page is built, and the
\* output directory and its files stay as they were.
C14_MissingInputStops ==
    [][~inputDir.exists =>
          /\ buildPc' = "stopped"
          /\ stdout'[Len(stdout')] = "Error: 'content' folder missing."
          /\ outDir' = outDir
          /\ readFiles' = {} /\ pages' = <<>> /\ menu' = <<>> /\ xmlUrls' = <<>>]_vars

\* C14 witness: the run has stopped on a missing input directory and the
\* files of an earlier run are still in the output directory.
C14_Witness ==
    /\ ~inputDir.exists
    /\ buildPc = "stopped"
    /\ outDir.exists /\ DOMAIN outDir.files = {"old.html", "db.json"}
    /\ Len(stdout) = 2

\* C15: when the write of one of the three output files fails, the run
\* reports an error, and the files it leaves in the output directory are
\* not a partial set: all three or none.
C15_WriteFailureSurfaced ==
    (buildPc = "done" /\ \E flt \in faults : flt.op = "WriteFile") =>
        /\ \E i \in 1..Len(stdout) : HasPrefix(stdout[i], "Error")
        /\ stdout[Len(stdout)] # "--- DONE ---"
        /\ WrittenArtifacts \in {{}, Artifacts}

\* C16: in a run that has passed the input check no file of an earlier
\* run is left in the output directory while documents are processed and
\* files written, and a run that ends with its three files written leaves
\* exactly these three in the output directory.
C16_OutputCleanedFirst ==
    /\ buildPc \in {"walk", "aborted", "db", "shell", "done"} =>
           \A n \in DOMAIN outDir.files : outDir.files[n].kind # "stale"
    /\ (buildPc = "done" /\ WrittenArtifacts = Artifacts) =>
           DOMAIN outDir.files = Artifacts

\* In the runs in which os.RemoveAll does not fail, the output directory is
\* cleaned before the walk.
CleanedWhenRemoveAllSucceeds ==
    Fault("RemoveAll", OutputDir) \notin faults => C16_OutputCleanedFirst

\* The documents of the input tree, and those deriving the slug sl.
Documents == {f \in inputDir.files : Ext(f.path) = ".md"}
DocumentsOf(sl) == {f \in Documents : DeriveSlug(f.path) = sl}

\* The document of a non-empty set that the walk visits last.
VisitedLast(docs) ==
    CHOOSE f \in docs : \A g \in docs \ {f} : WalkBefore(g.path, f.path)

\* C17: after the walk the page map has exactly one page for every slug
\* derived by a document, the page built from the document of that slug
\* visited last; a collision of slugs neither aborts the run nor is
\* reported.
C17_LastDocumentWins ==
    /\ buildPc \in {"db", "shell", "done"} =>
          /\ DOMAIN pages = {DeriveSlug(f.path) : f \in Documents}
          /\ \A sl \in DOMAIN pages :
                pages[sl] = PageOf(ReadFile(VisitedLast(DocumentsOf(sl)), faults))
    /\ (\E f, g \in Documents : f # g /\ DeriveSlug(f.path) = DeriveSlug(g.path)) =>
          /\ buildPc = "aborted" => \E flt \in faults : flt.op = "ReadDir"
          /\ \A i \in 1..Len(stdout) :
                HasPrefix(stdout[i], "Error") => buildPc = "aborted"

\* C17 witness: d.md and d/index.md both derive /d; the run is done and
\* the page of /d is that of d.md, visited after d/index.md.
C17_Witness ==
    /\ buildPc = "done" /\ faults = {}
    /\ {f.path : f \in inputDir.files} = {"d.md", "d/index.md"}
    /\ xmlUrls = <<"/d", "/d">>
    /\ DOMAIN pages = {"/d"}
    /\ pages["/d"].Title = "D" /\ pages["/d"].Content = ""
    /\ stdout = <<"--- BUILDING OPTIMIZED SITE ---", "--- DONE ---">>

\* The leaves of a menu tree.
RECURSIVE Leaves(_)
Leaves(nodes) ==
    UNION {IF nodes[i].IsFolder THEN Leaves(nodes[i].Children) ELSE {nodes[i]} :
              i \in 1..Len(nodes)}

\* The front matter supplies a non-empty title.
SuppliesTitle(meta) ==
    "title" \in DOMAIN meta /\ meta["title"].tag = "string" /\ meta["title"].str # ""

\* The title C18 selects for the document f: the supplied title, else
\* "Home" for the root slug, else the file name with hyphens replaced by
\* spaces and title-cased.
SelectedTitle(f) ==
    LET meta == ReadFile(f, faults).meta
    IN IF SuppliesTitle(meta) THEN meta["title"].str
       ELSE IF DeriveSlug(f.path) = "/" THEN "Home"
       ELSE Title(ReplaceAll(FileName(f.path), "-", " "))

\* The page and the menu leaves of every document carry its selected title.
TitlesSelected ==
    buildPc \in {"db", "shell", "done"} =>
        /\ \A sl \in DOMAIN pages :
              pages[sl].Title = SelectedTitle(VisitedLast(DocumentsOf(sl)))
        /\ \A leaf \in Leaves(menu) :
              \E f \in DocumentsOf(leaf.Slug) : leaf.Title = SelectedTitle(f)

\* C18: the page title and the menu leaf title of a document are the
\* non-empty title its metadata supplies; when the metadata supplies none
\* they are "Home" for the slug "/" and otherwise the file name with
\* hyphens replaced by spaces and title-cased.
C18_TitleSelection == TitlesSelected

\* For the documents whose title is absent or a string, the titles are
\* the selected ones.
TitleSelectionOnStrings ==
    (\A f \in Documents : "title" \in DOMAIN f.meta => f.meta["title"].tag = "string")
        => TitlesSelected

\* The key is absent from the front matter or its value is not a string.
NotAString(meta, key) == key \notin DOMAIN meta \/ meta[key].tag # "string"

\* The key is absent from the front matter or its value is not an integer.
NotAnInteger(meta, key) == key \notin DOMAIN meta \/ meta[key].tag # "int"

\* C19: in the page of a document, a string field whose key is absent or
\* whose value is not a string is empty (the title and the description then
\* being the fallback title and the first-paragraph description), and the
\* weight is 0 when its key is absent or its value is not an integer; the
\* same holds of the description of ProcessMarkdown.
C19_MetadataCoercion ==
    buildPc \in {"db", "shell", "done"} =>
        \A sl \in DOMAIN pages :
            LET src == ReadFile(VisitedLast(DocumentsOf(sl)), faults)
                meta == src.meta
                absent == [k \in DOMAIN meta \ {"title", "description"} |-> meta[k]]
            IN /\ NotAString(meta, "published on") => pages[sl].Published = ""
               /\ NotAString(meta, "updated on") => pages[sl].Updated = ""
               /\ NotAString(meta, "category") => pages[sl].Category = ""
               /\ NotAString(meta, "title") =>
                     pages[sl].Title = FinalTitle(absent, src.path)
               /\ NotAString(meta, "description") =>
                     /\ pages[sl].Description = mainDescription(absent, src.doc)
                     /\ Description(meta, src.doc) = Description(absent, src.doc)
               /\ NotAnInteger(meta, "weight") => pages[sl].Weight = 0

\* C22: after a completed walk every slug of the page map is the slug of a
\* leaf of the menu; the root document, when there is one, has the leaf "/"
\* at the root level.
C22_EveryPageHasMenuEntry ==
    buildPc \in {"db", "shell", "done"} =>
        /\ \A sl \in DOMAIN pages : sl \in LeafSlugs(menu)
        /\ "/" \in DOMAIN pages =>
              \E i \in 1..Len(menu) : ~menu[i].IsFolder /\ menu[i].Slug = "/"


\* The documents the walk has passed: those no longer ahead of it.
Processed ==
    IF buildPc \in {"start", "stopped"} THEN {}
    ELSE {f \in Documents : \A i \in 1..Len(pending) : pending[i].path # f.path}

\* C23: at every point of the run every slug of a leaf of the menu is a key
\* of the page map, the slugs of the sitemap list are exactly the keys of
\* the page map, and the list has one element per document processed so
\* far, more than there are pages exactly when two processed documents
\* derived the same slug.
C23_MenuPagesSlugListAgree ==
    /\ LeafSlugs(menu) \subseteq DOMAIN pages
    /\ {xmlUrls[i] : i \in 1..Len(xmlUrls)} = DOMAIN pages
    /\ Len(xmlUrls) = Cardinality(Processed)
    /\ Len(xmlUrls) > Cardinality(DOMAIN pages)
          <=> \E f, g \in Processed : f # g /\ DeriveSlug(f.path) = DeriveSlug(g.path)

\* C23 witness: the walk has processed d/index.md and d.md, both with the
\* slug /d, and no artifact has been written yet.
C23_Witness ==
    /\ buildPc = "walk"
    /\ {f.path : f \in Processed} = {"d.md", "d/index.md"}
    /\ xmlUrls = <<"/d", "/d">>
    /\ DOMAIN pages = {"/d"}
    /\ LeafSlugs(menu) = {"/d"}

----------------------------------------------------------------------------
(* Specification SpecView: the app shell resolves the transclusion         *)
(* placeholders of the displayed page against window.siteData              *)
(*                                                                         *)
(* The strings of the view are sequences of Unicode code points. What the  *)
(* browser does is modelled in part: a CASE without an arm for an argument *)
(* leaves the operator undefined there, the selector parser answers        *)
(* "unmodelled" where it does not follow the browser, and the              *)
(* specification has no step for a placeholder on which the callback is    *)
(* not modelled, so that every behaviour of the specification is one of    *)
(* the code.                                                               *)

MaxElems == 3

\* The code point of every character a text of the model is written in.
CodeOf ==
    [c \in {At(AsciiLo \o AsciiHi, i) : i \in 1..Len(AsciiLo \o AsciiHi)}
            \cup {"\t", "\n", "\r"} |-> Ord(c)]

\* The code points of a text written in ASCII.
Codes(str) == [i \in 1..Len(str) |-> CodeOf[At(str, i)]]

\* The code point at i, -1 where the text has none.
Pt(str, i) == IF i \in 1..Len(str) THEN str[i] ELSE -1

AsciiLower(c) == IF c \in 65..90 THEN c + 32 ELSE c

LowerAscii(str) == [i \in 1..Len(str) |-> AsciiLower(str[i])]

\* An HTML element of a page's rendered content, with its id attribute
\* (<<>> without one), the text in front of its first child element and its
\* child elements.
Element(tag, id, inner, children) ==
    [tagName |-> tag, id |-> id, text |-> inner, children |-> children]

Written(tag, id, inner, children) ==
    Element(Codes(tag), Codes(id), Codes(inner), children)

\* Headings carry the ids goldmark derives from their text; the block
\* quote, with an id of its own, a heading and a paragraph with a hard line
\* break inside, and the h10 element are raw HTML.
PageElements ==
    {Written("H1", "top", "Top", <<>>),
     Written("H10", "x", "Ten", <<>>),
     Written("H2", "intro", "Intro", <<>>),
     Written("H3", "usage", "Usage", <<>>),
     Written("H2", "2024-plans", "2024 Plans", <<>>),
     Written("BLOCKQUOTE", "quote", "",
             <<Written("H2", "quoted", "Quoted", <<>>),
               Written("P", "s", "1 < 2 & 3", <<Written("BR", "", "", <<>>)>>)>>)}

Contents == UNION {[1..n -> PageElements] : n \in 0..MaxElems}

\* The (data-slug, data-id) pairs of the placeholders of a page.
RefTargets ==
    {<<"/guide", "intro">>, <<"/guide", "usage">>, <<"/guide", "2024-plans">>,
     <<"/guide", "quoted">>, <<"/guide", "quote">>, <<"/guide", "x">>,
     <<"/guide", "s">>, <<"/guide", "Step 2">>, <<"/guide", "a &gt; b">>,
     <<"/guide", "quote p">>, <<"/guide", "quote :first-child">>,
     <<"/guide", "intro:not(h3)">>,
     <<"/missing", "intro">>, <<"constructor", "intro">>}

\* The targets of the second placeholder of a page with two.
SecondTargets ==
    {<<"/guide", "usage">>, <<"/guide", "2024-plans">>, <<"/missing", "intro">>}

Loading ==
    Codes("<span class=\"text-gray-400 text-sm animate-pulse\">Loading referenced content...</span>")

\* What an attribute value written between double quotes is read as: the
\* references goldmark writes are the characters they name, an ampersand
\* that starts no reference is itself; a value with a quote, another
\* reference, NUL or a carriage return is not modelled.
RECURSIVE ReadAsValue(_)
ReadAsValue(str) ==
    LET Names(ref) ==
            Len(str) > Len(ref) /\ SubSeq(str, 2, Len(ref) + 1) = Codes(ref)
        After(n) == ReadAsValue(SubSeq(str, n + 1, Len(str)))
        next == Pt(str, 2)
    IN IF str = <<>> THEN <<>>
       ELSE CASE Head(str) = 38 /\ Names("amp;") -> <<38>> \o After(5)
              [] Head(str) = 38 /\ Names("lt;") -> <<60>> \o After(4)
              [] Head(str) = 38 /\ Names("gt;") -> <<62>> \o After(4)
              [] Head(str) = 38 /\ Names("quot;") -> <<34>> \o After(6)
              [] Head(str) = 38 /\ Names("#39;") -> <<39>> \o After(5)
              [] Head(str) = 38 /\ next \notin 48..57 \cup 65..90 \cup 97..122 \cup {35}
                    -> <<38>> \o After(1)
              [] Head(str) \notin {0, 13, 34, 38} -> <<Head(str)>> \o After(1)

\* An element of the class transclusion-placeholder whose data-slug and
\* data-id are written as ref[1] and ref[2]: the one Placeholder(refSlug,
\* refID) is parsed to, or one of raw HTML.
PlaceholderElement(ref) ==
    [slug |-> ReadAsValue(ref[1]), id |-> ReadAsValue(ref[2]), innerHTML |-> Loading,
     classList |-> {"transclusion-placeholder", "p-4", "border-l-4",
                    "border-purple-500", "bg-gray-50", "dark:bg-gray-800", "my-4"}]

Placeholders ==
    LET Of(r) == PlaceholderElement(<<Codes(r[1]), Codes(r[2])>>)
    IN {<<>>} \cup {<<Of(r)>> : r \in RefTargets}
              \cup {<<Of(r), Of(q)>> : r \in RefTargets, q \in SecondTargets}

\* The local name of an HTML element: tagName in ASCII lower case.
localName(tagName) == LowerAscii(tagName)

\* The elements serialized without content and end tag.
VoidTags ==
    {Codes(t) : t \in {"AREA", "BASE", "BASEFONT", "BGSOUND", "BR", "COL", "EMBED",
                       "FRAME", "HR", "IMG", "INPUT", "KEYGEN", "LINK", "META",
                       "PARAM", "SOURCE", "TRACK", "WBR"}}

\* The elements whose text is serialized as it is.
RawTextTags ==
    {Codes(t) : t \in {"STYLE", "SCRIPT", "XMP", "IFRAME", "NOEMBED", "NOFRAMES",
                       "PLAINTEXT", "NOSCRIPT"}}

\* A code point as the serializer writes it, in an attribute value or in
\* text. Whether "<" and ">" are escaped in an attribute value depends on
\* the version of the browser.
EscapedChar(c, attribute) ==
    CASE c = 38 -> Codes("&amp;")
      [] c = 160 -> Codes("&nbsp;")
      [] c = 34 /\ attribute -> Codes("&quot;")
      [] c = 60 /\ ~attribute -> Codes("&lt;")
      [] c = 62 /\ ~attribute -> Codes("&gt;")
      [] c \notin {34, 38, 60, 62, 160} \/ (c = 34 /\ ~attribute) -> <<c>>

\* The text as the serializer writes it, one half after the other.
RECURSIVE Escaped(_, _)
Escaped(str, attribute) ==
    LET half == Len(str) \div 2
    IN IF str = <<>> THEN <<>>
       ELSE IF Len(str) = 1 THEN EscapedChar(str[1], attribute)
       ELSE Escaped(SubSeq(str, 1, half), attribute)
                \o Escaped(SubSeq(str, half + 1, Len(str)), attribute)

\* element.outerHTML; the content of a template element is not modelled.
RECURSIVE OuterHTML(_), HTMLOf(_)
OuterHTML(e) ==
    LET StartTag(name) ==
            Codes("<") \o name
                \o (IF e.id = <<>> THEN <<>>
                    ELSE Codes(" id=\"") \o Escaped(e.id, TRUE) \o Codes("\""))
                \o Codes(">")
        EndTag(name) == Codes("</") \o name \o Codes(">")
    IN CASE e.tagName \in VoidTags -> StartTag(localName(e.tagName))
         [] e.tagName \notin VoidTags \cup {Codes("TEMPLATE")} ->
               StartTag(localName(e.tagName))
                   \o (IF e.tagName \in RawTextTags THEN e.text
                       ELSE Escaped(e.text, FALSE))
                   \o HTMLOf(e.children)
                   \o EndTag(localName(e.tagName))

HTMLOf(nodes) ==
    IF nodes = <<>> THEN <<>> ELSE OuterHTML(Head(nodes)) \o HTMLOf(Tail(nodes))

\* The elements the HTML parser gives a behaviour of their own among those
\* whose name starts with "h".
KnownHTags ==
    {Codes(t) : t \in {"H1", "H2", "H3", "H4", "H5", "H6", "HR", "HEAD", "HEADER",
                       "HGROUP", "HTML"}}

\* How the HTML parser treats the elements of the model: "flow" elements
\* hold anything, "item" is li, "para" elements hold phrasing content,
\* "phrasing" elements are held by any of them, "break" are the void ones
\* among these and "rule" is hr.
ClassTags ==
    [class \in {"flow", "item", "para", "phrasing", "break", "rule"} |->
        {Codes(t) : t \in
            CASE class = "flow" -> {"DIV", "BLOCKQUOTE", "SECTION", "ARTICLE", "UL", "OL"}
              [] class = "item" -> {"LI"}
              [] class = "para" -> {"P", "PRE", "H1", "H2", "H3", "H4", "H5", "H6"}
              [] class = "phrasing" -> {"SPAN", "EM", "STRONG", "CODE", "DEL", "A"}
              [] class = "break" -> {"BR", "IMG", "WBR"}
              [] class = "rule" -> {"HR"}}]

\* The class of an element, "other" for one the model does not parse. An
\* element the parser does not know is phrasing; the model takes those
\* whose name starts with "H", where the callback reads a level from.
TagClass(tagName) ==
    IF \E class \in DOMAIN ClassTags : tagName \in ClassTags[class]
    THEN CHOOSE class \in DOMAIN ClassTags : tagName \in ClassTags[class]
    ELSE IF /\ Len(tagName) >= 1 /\ tagName[1] = 72 /\ tagName \notin KnownHTags
            /\ \A i \in 1..Len(tagName) :
                  tagName[i] \notin {0, 9, 10, 12, 13, 32, 47, 62} \cup 97..122
         THEN "phrasing"
    ELSE "other"

\* The elements are the ones the HTML parser builds from their own
\* serialization, as the content of a div: no element the parser moves,
\* closes early or drops (a block in a paragraph, an li in an li with
\* nothing but div <<68, 73, 86>> between them, an a <<65>> in an a), no
\* text it changes (NUL, carriage return, a line feed that opens a pre
\* <<80, 82, 69>>) and no id whose serialization depends on the browser's
\* version.
RECURSIVE Rendered(_, _, _, _)
Rendered(nodes, inPhrasing, inItem, inAnchor) ==
    \A i \in 1..Len(nodes) :
        LET node == nodes[i]
            class == TagClass(node.tagName)
        IN /\ class # "other"
           /\ inPhrasing => class \in {"phrasing", "break"}
           /\ class = "item" => ~inItem
           /\ node.tagName = <<65>> => ~inAnchor
           /\ class \in {"break", "rule"} => (node.text = <<>> /\ node.children = <<>>)
           /\ \A k \in 1..Len(node.text) : node.text[k] \notin {0, 13}
           /\ node.tagName = <<80, 82, 69>> => Pt(node.text, 1) # 10
           /\ \A k \in 1..Len(node.id) : node.id[k] \notin {0, 13, 60, 62}
           /\ Rendered(node.children,
                       inPhrasing \/ class \in {"para", "phrasing"},
                       class = "item" \/ (inItem /\ node.tagName = <<68, 73, 86>>),
                       inAnchor \/ node.tagName = <<65>>)

\* The value of a code point as a digit, 36 when it is none.
DigitValue(c) ==
    IF c \in 48..57 THEN c - 48
    ELSE IF c \in 97..122 THEN c - 87
    ELSE IF c \in 65..90 THEN c - 55
    ELSE 36

\* The number of digits of the radix from i on.
RECURSIVE DigitRun(_, _, _)
DigitRun(str, i, radix) ==
    IF DigitValue(Pt(str, i)) < radix THEN 1 + DigitRun(str, i + 1, radix) ELSE 0

\* The value of the n digits from i on.
RECURSIVE ParseDigits(_, _, _, _, _)
ParseDigits(str, i, n, radix, acc) ==
    IF n = 0 THEN acc
    ELSE ParseDigits(str, i + 1, n - 1, radix, acc * radix + DigitValue(str[i]))

\* WhiteSpace and LineTerminator of ECMAScript.
StrWhiteSpace ==
    {9, 10, 11, 12, 13, 32, 160, 5760, 8232, 8233, 8239, 8287, 12288, 65279}
        \cup 8192..8202

RECURSIVE SkipWhiteSpace(_, _)
SkipWhiteSpace(str, i) ==
    IF Pt(str, i) \in StrWhiteSpace THEN SkipWhiteSpace(str, i + 1) ELSE i

\* The longest runs of digits whose value the model computes.
MaxDigits == [r \in {10, 16} |-> IF r = 10 THEN 9 ELSE 7]

\* The digits parseInt reads: white space in front is skipped, then a sign,
\* then "0x" or "0X" for radix 16, then the longest run of digits.
IntDigits(str) ==
    LET Run(start, signed, hex) ==
            [neg |-> Pt(str, start) = 45,
             radix |-> IF hex THEN 16 ELSE 10,
             from |-> IF hex THEN signed + 2 ELSE signed,
             run |-> IF hex THEN DigitRun(str, signed + 2, 16)
                     ELSE DigitRun(str, signed, 10)]
        Signed(start, signed) ==
            Run(start, signed,
                Pt(str, signed) = 48 /\ Pt(str, signed + 1) \in {88, 120})
        Start(start) ==
            Signed(start, IF Pt(str, start) \in {43, 45} THEN start + 1 ELSE start)
    IN Start(SkipWhiteSpace(str, 1))

\* parseInt(text): NaN without a digit.
parseInt(str) ==
    LET Value(d) ==
            CASE d.run = 0 -> [nan |-> TRUE, n |-> 0]
              [] d.run \in 1..MaxDigits[d.radix] ->
                    [nan |-> FALSE,
                     n |-> IF d.neg THEN 0 - ParseDigits(str, d.from, d.run, d.radix, 0)
                           ELSE ParseDigits(str, d.from, d.run, d.radix, 0)]
    IN Value(IntDigits(str))

\* a <= b of numbers: false when either is NaN.
LessEq(a, b) == ~a.nan /\ ~b.nan /\ a.n <= b.n

\* /^H[1-6]$/.test(tagName)
IsHeadingTag(tagName) == Len(tagName) = 2 /\ tagName[1] = 72 /\ tagName[2] \in 49..54

----------------------------------------------------------------------------
(* querySelector: the selector is cut into tokens, parsed, and matched      *)
(* against the elements of tempDiv in document order                        *)

\* Code points of which the tokenizers of different versions of the browser
\* make different tokens: NUL, and the code points above ASCII that not every
\* version takes into a name.
Disputed(c) ==
    \/ c = 0
    \/ /\ c >= 128
       /\ ~(\/ c = 183 \/ c \in 192..214 \/ c \in 216..246 \/ c \in 248..893
            \/ c \in 895..8191 \/ c \in {8204, 8205, 8255, 8256}
            \/ c \in 8304..8591 \/ c \in 11264..12271 \/ c \in 12289..55295
            \/ c \in 63744..64975 \/ c \in 65008..65533 \/ c >= 65536)

\* The input of the tokenizer: CR LF, CR and FF are each a line feed.
\* The text is read in two parts, cut where no CR LF is.
RECURSIVE Preprocessed(_)
Preprocessed(str) ==
    LET half == Len(str) \div 2
        cut == IF str[half] = 13 /\ str[half + 1] = 10 THEN half + 1 ELSE half
    IN IF Len(str) <= 2
       THEN IF str = <<13, 10>> THEN <<10>>
            ELSE [i \in 1..Len(str) |-> IF str[i] \in {12, 13} THEN 10 ELSE str[i]]
       ELSE Preprocessed(SubSeq(str, 1, cut))
                \o Preprocessed(SubSeq(str, cut + 1, Len(str)))

IsCSSSpace(c) == c \in {9, 10, 32}

IsHexDigit(c) == c \in 48..57 \/ c \in 65..70 \/ c \in 97..102

IsNameStart(c) == c \in 65..90 \/ c \in 97..122 \/ c = 95 \/ c >= 128

\* A code point of a name.
IsNameChar(c) == IsNameStart(c) \/ c \in 48..57 \/ c = 45

\* A backslash at i starts an escape: no line feed follows it.
ValidEscape(s, i) == Pt(s, i) = 92 /\ Pt(s, i + 1) # 10

\* The number of hexadecimal digits from i on, six at most.
RECURSIVE HexRun(_, _, _)
HexRun(s, i, n) ==
    IF n < 6 /\ IsHexDigit(Pt(s, i)) THEN HexRun(s, i + 1, n + 1) ELSE n

\* The code point a hexadecimal escape stands for.
Chr(n) == IF n = 0 \/ n \in 55296..57343 \/ n > 1114111 THEN 65533 ELSE n

\* The escape whose backslash is at i: the position behind it and the code
\* point it stands for. One white space behind the digits belongs to it;
\* at the end of the input it stands for U+FFFD.
ConsumeEscape(s, i) ==
    LET Digits16(n) ==
            IF Pt(s, i + 1) = -1 THEN [pos |-> i + 1, val |-> 65533]
            ELSE IF n = 0 THEN [pos |-> i + 2, val |-> s[i + 1]]
            ELSE [pos |-> IF IsCSSSpace(Pt(s, i + 1 + n)) THEN i + 2 + n
                          ELSE i + 1 + n,
                  val |-> Chr(ParseDigits(s, i + 1, n, 16, 0))]
    IN Digits16(HexRun(s, i + 1, 0))

\* The position behind the code points of a name that stand from i on.
NameRun(s, i) ==
    CHOOSE j \in i..(Len(s) + 1) :
        /\ \A k \in i..(j - 1) : IsNameChar(s[k])
        /\ ~IsNameChar(Pt(s, j))

\* The name from i on: the code points of a name up to an escape, the code
\* point of the escape and what follows it.
RECURSIVE ParseName(_, _, _)
ParseName(s, i, acc) ==
    LET Escape(run, e) == ParseName(s, e.pos, Append(run, e.val))
        Run(j) ==
            IF ValidEscape(s, j)
            THEN Escape(acc \o SubSeq(s, i, j - 1), ConsumeEscape(s, j))
            ELSE [pos |-> j, val |-> acc \o SubSeq(s, i, j - 1)]
    IN Run(NameRun(s, i))

\* The code points from i on start an identifier.
StartsIdent(s, i) ==
    \/ IsNameStart(Pt(s, i))
    \/ ValidEscape(s, i)
    \/ /\ Pt(s, i) = 45
       /\ IsNameStart(Pt(s, i + 1)) \/ Pt(s, i + 1) = 45 \/ ValidEscape(s, i + 1)

\* The code points from i on start a number.
StartsNumber(s, i) ==
    \/ Pt(s, i) \in 48..57
    \/ Pt(s, i) = 46 /\ Pt(s, i + 1) \in 48..57
    \/ /\ Pt(s, i) \in {43, 45}
       /\ \/ Pt(s, i + 1) \in 48..57
          \/ Pt(s, i + 1) = 46 /\ Pt(s, i + 2) \in 48..57

\* The position behind the comment whose text starts at i.
RECURSIVE CommentEnd(_, _)
CommentEnd(s, i) ==
    IF i > Len(s) THEN i
    ELSE IF s[i] = 42 /\ Pt(s, i + 1) = 47 THEN i + 2
    ELSE CommentEnd(s, i + 1)

RECURSIVE SkipSpaces(_, _)
SkipSpaces(s, i) == IF IsCSSSpace(Pt(s, i)) THEN SkipSpaces(s, i + 1) ELSE i

\* The string whose text starts at i, behind the quote: "string" with its
\* value, "open" when the input ends in it, "bad" when a line ends in it.
RECURSIVE ParseString(_, _, _, _)
ParseString(s, i, quote, acc) ==
    LET Escape(e) == ParseString(s, e.pos, quote, Append(acc, e.val))
    IN IF i > Len(s) THEN [kind |-> "open", pos |-> i, val |-> acc]
       ELSE IF s[i] = quote THEN [kind |-> "string", pos |-> i + 1, val |-> acc]
       ELSE IF s[i] = 10 THEN [kind |-> "bad", pos |-> i, val |-> acc]
       ELSE IF s[i] # 92 THEN ParseString(s, i + 1, quote, Append(acc, s[i]))
       ELSE IF i = Len(s) THEN ParseString(s, i + 1, quote, acc)
       ELSE IF s[i + 1] = 10 THEN ParseString(s, i + 2, quote, acc)
       ELSE Escape(ConsumeEscape(s, i))

\* The token at i and the position behind it. A comment is cut like a token
\* and dropped by Tokens. "other" is a token no selector of the model
\* holds (a number, a url, a string a line ends in, "-->"), with which the
\* tokens end. "match" is one of ~= |= ^= $= *= and "column" is ||.
TokenAt(s, i) ==
    LET c == Pt(s, i)
        Token(tok, pos) == [tok |-> tok, pos |-> pos]
        Named(name) ==
            IF Pt(s, name.pos) # 40 THEN Token([t |-> "ident", v |-> name.val], name.pos)
            ELSE IF LowerAscii(name.val) = Codes("url")
                 THEN Token([t |-> "other"], name.pos + 1)
            ELSE Token([t |-> "function", v |-> name.val], name.pos + 1)
        Hashed(name) ==
            Token([t |-> "hash", v |-> name.val, id |-> StartsIdent(s, i + 1)], name.pos)
        Quoted(str) ==
            IF str.kind = "bad" THEN Token([t |-> "other"], str.pos)
            ELSE Token([t |-> "string", v |-> str.val, open |-> str.kind = "open"],
                       str.pos)
    IN IF c = 47 /\ Pt(s, i + 1) = 42
       THEN Token([t |-> "comment"], CommentEnd(s, i + 2))
       ELSE IF IsCSSSpace(c) THEN Token([t |-> "ws"], SkipSpaces(s, i))
       ELSE IF c \in {34, 39} THEN Quoted(ParseString(s, i + 1, c, <<>>))
       ELSE IF c = 35 /\ (IsNameChar(Pt(s, i + 1)) \/ ValidEscape(s, i + 1))
            THEN Hashed(ParseName(s, i + 1, <<>>))
       ELSE IF StartsNumber(s, i) THEN Token([t |-> "other"], i + 1)
       ELSE IF c = 45 /\ Pt(s, i + 1) = 45 /\ Pt(s, i + 2) = 62
            THEN Token([t |-> "other"], i + 3)
       ELSE IF StartsIdent(s, i) THEN Named(ParseName(s, i, <<>>))
       ELSE IF c \in {126, 124, 94, 36, 42} /\ Pt(s, i + 1) = 61
            THEN Token([t |-> "match", op |-> c], i + 2)
       ELSE IF c = 124 /\ Pt(s, i + 1) = 124 THEN Token([t |-> "column"], i + 2)
       ELSE IF c = 58 THEN Token([t |-> "colon"], i + 1)
       ELSE IF c = 44 THEN Token([t |-> "comma"], i + 1)
       ELSE IF c = 91 THEN Token([t |-> "["], i + 1)
       ELSE IF c = 93 THEN Token([t |-> "]"], i + 1)
       ELSE IF c = 41 THEN Token([t |-> ")"], i + 1)
       ELSE Token([t |-> "delim", c |-> c], i + 1)

\* The tokens from i on.
RECURSIVE Tokens(_, _, _)
Tokens(s, i, acc) ==
    LET Next(r) ==
            IF r.tok.t = "other" THEN Append(acc, r.tok)
            ELSE Tokens(s, r.pos, IF r.tok.t = "comment" THEN acc ELSE Append(acc, r.tok))
    IN IF i > Len(s) THEN acc ELSE Next(TokenAt(s, i))

\* The token at i, that of the end behind the last.
Tk(ts, i) == IF i \in 1..Len(ts) THEN ts[i] ELSE [t |-> "eof"]

IsDelim(tok, c) == tok.t = "delim" /\ tok.c = c

RECURSIVE SkipWs(_, _)
SkipWs(ts, i) == IF Tk(ts, i).t = "ws" THEN SkipWs(ts, i + 1) ELSE i

\* The results of the parser: "ok" with the position behind what was read
\* and its value, "none" when nothing was read, "bad" for what is no
\* selector in any version of the browser, "unmodelled" for what the model
\* does not follow: a block the end of the input closes, a flag, pseudo-class
\* or pseudo-element outside the lists below, a selector behind a
\* pseudo-element, and a list that forgives when it holds what is no
\* selector.
Parsed(pos, val) == [kind |-> "ok", pos |-> pos, val |-> val]

Failed(kind) == [kind |-> kind]

\* The pseudo-classes of the model: the ones that read the siblings of the
\* element, the ones that hold of no element of a tree which is not in the
\* document, has no focus and no link, and root, scope and empty.
StructuralPseudos ==
    {"first-child", "last-child", "only-child",
     "first-of-type", "last-of-type", "only-of-type"}

NeverPseudos ==
    {"root", "hover", "active", "focus", "focus-within", "focus-visible",
     "target", "visited", "link", "any-link"}

PseudoClasses == StructuralPseudos \cup NeverPseudos \cup {"scope", "empty"}

\* The pseudo-elements written with one colon or two.
PseudoElements == {"before", "after", "first-line", "first-letter"}

\* The name of a set a text spells, in any case of its ASCII letters.
Spells(names, str) == \E n \in names : Codes(n) = LowerAscii(str)

Spelled(names, str) == CHOOSE n \in names : Codes(n) = LowerAscii(str)

\* The name of an attribute selector, read from j on: a name, *|name or
\* |name. A prefix is no namespace of querySelector.
AttributeName(ts, j) ==
    LET a == Tk(ts, j)
        b == Tk(ts, j + 1)
        c == Tk(ts, j + 2)
    IN IF a.t = "ident" /\ IsDelim(b, 124)
       THEN IF IsDelim(c, 61) THEN Failed("unmodelled") ELSE Failed("bad")
       ELSE IF a.t = "ident" THEN Parsed(j + 1, a.v)
       ELSE IF IsDelim(a, 42) /\ IsDelim(b, 124) /\ c.t = "ident" THEN Parsed(j + 3, c.v)
       ELSE IF IsDelim(a, 124) /\ b.t = "ident" THEN Parsed(j + 2, b.v)
       ELSE Failed("bad")

\* The attribute selector whose "[" is at i.
ParseAttribute(ts, i) ==
    LET Selector(name, op, val, ci) ==
            [k |-> "attribute", name |-> LowerAscii(name), op |-> op, val |-> val,
             ci |-> ci]
        Close(name, op, val, ci, j) ==
            IF Tk(ts, j).t = "]" THEN Parsed(j + 1, Selector(name, op, val, ci))
            ELSE IF Tk(ts, j).t = "eof" THEN Failed("unmodelled")
            ELSE Failed("bad")
        Flag(name, op, val, j) ==
            IF Tk(ts, j).t # "ident" THEN Close(name, op, val, FALSE, j)
            ELSE IF LowerAscii(Tk(ts, j).v) = Codes("i")
                 THEN Close(name, op, val, TRUE, SkipWs(ts, j + 1))
            ELSE IF LowerAscii(Tk(ts, j).v) = Codes("s") THEN Failed("unmodelled")
            ELSE Failed("bad")
        Value(name, op, j) ==
            IF Tk(ts, j).t = "ident" THEN Flag(name, op, Tk(ts, j).v, SkipWs(ts, j + 1))
            ELSE IF Tk(ts, j).t = "string"
                 THEN IF Tk(ts, j).open THEN Failed("unmodelled")
                      ELSE Flag(name, op, Tk(ts, j).v, SkipWs(ts, j + 1))
            ELSE Failed("bad")
        Matcher(name, j) ==
            IF Tk(ts, j).t = "]" THEN Parsed(j + 1, Selector(name, 0, <<>>, FALSE))
            ELSE IF Tk(ts, j).t = "eof" THEN Failed("unmodelled")
            ELSE IF IsDelim(Tk(ts, j), 61) THEN Value(name, 61, SkipWs(ts, j + 1))
            ELSE IF Tk(ts, j).t = "match" THEN Value(name, Tk(ts, j).op, SkipWs(ts, j + 1))
            ELSE IF Tk(ts, j).t = "delim" /\ Tk(ts, j).c \in {126, 124, 94, 36, 42}
                    /\ IsDelim(Tk(ts, j + 1), 61)
                 THEN Failed("unmodelled")
            ELSE Failed("bad")
        Named(name) ==
            IF name.kind = "ok" THEN Matcher(name.val, SkipWs(ts, name.pos)) ELSE name
    IN Named(AttributeName(ts, SkipWs(ts, i + 1)))

\* The type selector from i on, a name or "*", with or without a namespace:
\* "none" when there is none; ns is "any" or, behind a "|" without prefix,
\* "no".
ParseType(ts, i) ==
    LET a == Tk(ts, i)
        b == Tk(ts, i + 1)
        c == Tk(ts, i + 2)
        Type(ns, tok) ==
            [ns |-> ns, any |-> tok.t # "ident",
             name |-> IF tok.t = "ident" THEN LowerAscii(tok.v) ELSE <<>>]
        Named(tok) == tok.t = "ident" \/ IsDelim(tok, 42)
    IN IF a.t = "ident" /\ IsDelim(b, 124)
       THEN IF Named(c) THEN Failed("bad") ELSE Failed("unmodelled")
       ELSE IF IsDelim(a, 42) /\ IsDelim(b, 124)
       THEN IF Named(c) THEN Parsed(i + 3, Type("any", c)) ELSE Failed("unmodelled")
       ELSE IF IsDelim(a, 124)
       THEN IF Named(b) THEN Parsed(i + 2, Type("no", b)) ELSE Failed("unmodelled")
       ELSE IF Named(a) THEN Parsed(i + 1, Type("any", a))
       ELSE Failed("none")

RECURSIVE ParsePseudo(_, _, _), ParseSimple(_, _, _), ParseSimples(_, _, _, _)
RECURSIVE ParseCompound(_, _, _), ParseRest(_, _, _, _), ParseComplex(_, _, _)
RECURSIVE ParseList(_, _, _, _)

\* The pseudo-class or pseudo-element whose colon is at i; nested in the
\* argument of a pseudo-class, a pseudo-element is not modelled.
ParsePseudo(ts, i, nested) ==
    LET double == Tk(ts, i + 1).t = "colon"
        j == IF Tk(ts, i + 1).t = "colon" THEN i + 2 ELSE i + 1
        name == Tk(ts, j)
        Closed(fn, inner) ==
            IF inner.kind = "unmodelled" THEN inner
            ELSE IF fn # "not" /\ inner.kind # "ok" THEN Failed("unmodelled")
            ELSE IF inner.kind # "ok" THEN inner
            ELSE IF Tk(ts, inner.pos).t = ")"
                 THEN Parsed(inner.pos + 1, [k |-> fn, list |-> inner.val])
            ELSE IF Tk(ts, inner.pos).t = "eof" \/ fn # "not" THEN Failed("unmodelled")
            ELSE Failed("bad")
    IN IF name.t \notin {"ident", "function"} THEN Failed("bad")
       ELSE IF name.t = "ident" /\ Spells(PseudoElements, name.v)
            THEN IF nested THEN Failed("unmodelled")
                 ELSE Parsed(j + 1, [k |-> "element"])
       ELSE IF double THEN Failed("unmodelled")
       ELSE IF name.t = "ident"
            THEN IF Spells(PseudoClasses, name.v)
                 THEN Parsed(j + 1, [k |-> "pseudo",
                                     name |-> Spelled(PseudoClasses, name.v)])
                 ELSE Failed("unmodelled")
       ELSE IF Spells({"not", "is", "where"}, name.v)
            THEN Closed(Spelled({"not", "is", "where"}, name.v),
                        ParseList(ts, j + 1, TRUE, <<>>))
       ELSE Failed("unmodelled")

\* The simple selector at i that is no type selector.
ParseSimple(ts, i, nested) ==
    LET tok == Tk(ts, i)
    IN IF tok.t = "hash"
       THEN IF tok.id THEN Parsed(i + 1, [k |-> "id", v |-> tok.v]) ELSE Failed("bad")
       ELSE IF IsDelim(tok, 46)
       THEN IF Tk(ts, i + 1).t = "ident"
            THEN Parsed(i + 2, [k |-> "class", v |-> Tk(ts, i + 1).v])
            ELSE Failed("bad")
       ELSE IF IsDelim(tok, 38) THEN Parsed(i + 1, [k |-> "nesting"])
       ELSE IF tok.t = "[" THEN ParseAttribute(ts, i)
       ELSE IF tok.t = "colon" THEN ParsePseudo(ts, i, nested)
       ELSE Failed("none")

\* The simple selectors from i on. Behind a pseudo-element the model
\* follows the end of the selector only.
ParseSimples(ts, i, nested, acc) ==
    LET Next(r) ==
            IF r.kind = "none" THEN Parsed(i, acc)
            ELSE IF r.kind # "ok" THEN r
            ELSE IF r.val.k # "element" THEN ParseSimples(ts, r.pos, nested, Append(acc, r.val))
            ELSE IF Tk(ts, SkipWs(ts, r.pos)).t \in {"eof", "comma"}
                 THEN Parsed(r.pos, Append(acc, r.val))
            ELSE Failed("unmodelled")
    IN Next(ParseSimple(ts, i, nested))

\* The compound selector at i: a type selector, simple selectors or both.
ParseCompound(ts, i, nested) ==
    LET Compound(type, simples) ==
            IF simples.kind # "ok" THEN simples
            ELSE IF type.kind = "none" /\ simples.val = <<>> THEN Failed("none")
            ELSE Parsed(simples.pos,
                        [type |-> IF type.kind = "none"
                                  THEN [ns |-> "any", any |-> TRUE, name |-> <<>>]
                                  ELSE type.val,
                         simples |-> simples.val])
        Typed(type) ==
            IF type.kind \in {"bad", "unmodelled"} THEN type
            ELSE Compound(type, ParseSimples(ts, IF type.kind = "ok" THEN type.pos ELSE i,
                                             nested, <<>>))
    IN Typed(ParseType(ts, i))

\* The combinators and compound selectors behind the compound selectors
\* read: white space is the descendant combinator, and the end of the
\* selector when no compound selector follows it.
ParseRest(ts, i, nested, parts) ==
    LET j == SkipWs(ts, i)
        sign == Tk(ts, SkipWs(ts, i)).t = "delim" /\ Tk(ts, SkipWs(ts, i)).c \in {43, 62, 126}
        Next(comb, at, r) ==
            IF r.kind = "ok"
            THEN ParseRest(ts, r.pos, nested, Append(parts, [comb |-> comb, compound |-> r.val]))
            ELSE IF r.kind = "none"
                 THEN IF comb = 32 THEN Parsed(at, parts) ELSE Failed("bad")
            ELSE r
    IN IF sign THEN Next(Tk(ts, j).c, j, ParseCompound(ts, SkipWs(ts, j + 1), nested))
       ELSE IF j > i THEN Next(32, j, ParseCompound(ts, j, nested))
       ELSE Parsed(i, parts)

\* The complex selector at i.
ParseComplex(ts, i, nested) ==
    LET First(r) ==
            IF r.kind = "ok"
            THEN ParseRest(ts, r.pos, nested, <<[comb |-> 0, compound |-> r.val]>>)
            ELSE IF r.kind = "none" THEN Failed("bad")
            ELSE r
    IN First(ParseCompound(ts, i, nested))

\* The selector list at i, up to what is no comma behind a selector.
ParseList(ts, i, nested, acc) ==
    LET Next(r) ==
            IF r.kind # "ok" THEN r
            ELSE IF Tk(ts, r.pos).t = "comma"
                 THEN ParseList(ts, r.pos + 1, nested, Append(acc, r.val))
            ELSE Parsed(r.pos, Append(acc, r.val))
    IN Next(ParseComplex(ts, SkipWs(ts, i), nested))

\* The selector list a text is: "valid" with the list, "invalid" when
\* querySelector throws a SyntaxError on it, "unmodelled".
ParseSelector(str) ==
    LET Whole(ts, r) ==
            IF r.kind = "unmodelled" THEN Failed("unmodelled")
            ELSE IF r.kind = "ok" /\ Tk(ts, r.pos).t = "eof"
                 THEN [kind |-> "valid", list |-> r.val]
            ELSE Failed("invalid")
        Cut(ts) ==
            IF ts = <<>> THEN Failed("invalid")
            ELSE Whole(ts, ParseList(ts, 1, FALSE, <<>>))
    IN IF \E i \in 1..Len(str) : Disputed(str[i]) THEN Failed("unmodelled")
       ELSE Cut(Tokens(Preprocessed(str), 1, <<>>))

----------------------------------------------------------------------------
(* Matching. A match is 2 when it holds, 0 when it does not and 1 when the  *)
(* model does not say: on the element the search starts from, for the       *)
(* pseudo-classes that read siblings and for the nesting selector.          *)

Both(a, b) == IF a < b THEN a ELSE b

Lowest(S) == IF S = {} THEN 2 ELSE CHOOSE x \in S : \A y \in S : x <= y

Highest(S) == IF S = {} THEN 0 ELSE CHOOSE x \in S : \A y \in S : y <= x

Holds(b) == IF b THEN 2 ELSE 0

\* The element at a path of child indices below an element.
RECURSIVE NodeAt(_, _)
NodeAt(node, path) ==
    IF path = <<>> THEN node ELSE NodeAt(node.children[Head(path)], Tail(path))

Front(path) == SubSeq(path, 1, Len(path) - 1)

\* The white space that separates the words of an attribute value.
IsHTMLSpace(c) == c \in {9, 10, 12, 13, 32}

\* The value of an attribute against the value of an attribute selector.
ValueMatches(value, op, val) ==
    LET n == Len(val)
        At1(a) == a + n - 1 <= Len(value) /\ SubSeq(value, a, a + n - 1) = val
    IN CASE op = 61 -> value = val
         [] op = 126 ->
               /\ n > 0 /\ \A i \in 1..n : ~IsHTMLSpace(val[i])
               /\ \E a \in 1..Len(value) :
                     /\ At1(a)
                     /\ a = 1 \/ IsHTMLSpace(value[a - 1])
                     /\ a + n - 1 = Len(value) \/ IsHTMLSpace(value[a + n])
         [] op = 124 -> At1(1) /\ (Len(value) = n \/ value[n + 1] = 45)
         [] op = 94 -> n > 0 /\ At1(1)
         [] op = 36 -> n > 0 /\ n <= Len(value) /\ At1(Len(value) - n + 1)
         [] op = 42 -> n > 0 /\ \E a \in 1..Len(value) : At1(a)

\* An element with the id attribute id, or without one, against an
\* attribute selector: id is the one attribute of the elements.
AttributeMatches(id, sel) ==
    /\ id # <<>>
    /\ sel.name = Codes("id")
    /\ \/ sel.op = 0
       \/ ~sel.ci /\ ValueMatches(id, sel.op, sel.val)
       \/ sel.ci /\ ValueMatches(LowerAscii(id), sel.op, LowerAscii(sel.val))

\* A pseudo-class on the element at path.
PseudoMatches(root, name, path) ==
    LET sibs == NodeAt(root, Front(path)).children
        k == path[Len(path)]
        Alike(j) == sibs[j].tagName = sibs[k].tagName
    IN CASE name = "scope" -> Holds(path = <<>>)
         [] name \in NeverPseudos -> 0
         [] name = "empty" ->
               Holds(NodeAt(root, path).text = <<>> /\ NodeAt(root, path).children = <<>>)
         [] name \in StructuralPseudos /\ path = <<>> -> 1
         [] name = "first-child" /\ path # <<>> -> Holds(k = 1)
         [] name = "last-child" /\ path # <<>> -> Holds(k = Len(sibs))
         [] name = "only-child" /\ path # <<>> -> Holds(Len(sibs) = 1)
         [] name = "first-of-type" /\ path # <<>> ->
               Holds(\A j \in 1..(k - 1) : ~Alike(j))
         [] name = "last-of-type" /\ path # <<>> ->
               Holds(\A j \in (k + 1)..Len(sibs) : ~Alike(j))
         [] name = "only-of-type" /\ path # <<>> ->
               Holds(\A j \in 1..Len(sibs) : j # k => ~Alike(j))

RECURSIVE MatchesSimple(_, _, _), MatchesCompound(_, _, _), MatchesAt(_, _, _, _)
RECURSIVE MatchesList(_, _, _)

\* A simple selector on the element at path: the elements have no class,
\* and no element is a pseudo-element.
MatchesSimple(root, sel, path) ==
    CASE sel.k = "id" -> Holds(NodeAt(root, path).id = sel.v)
      [] sel.k = "class" -> 0
      [] sel.k = "attribute" -> Holds(AttributeMatches(NodeAt(root, path).id, sel))
      [] sel.k = "nesting" -> IF path = <<>> THEN 1 ELSE 0
      [] sel.k = "element" -> 0
      [] sel.k = "pseudo" -> PseudoMatches(root, sel.name, path)
      [] sel.k = "not" -> 2 - MatchesList(root, sel.list, path)
      [] sel.k \in {"is", "where"} -> MatchesList(root, sel.list, path)

\* A compound selector on the element at path: the elements are HTML
\* elements, which have a namespace.
MatchesCompound(root, compound, path) ==
    Both(Holds(/\ compound.type.ns = "any"
               /\ \/ compound.type.any
                  \/ compound.type.name = localName(NodeAt(root, path).tagName)),
         Lowest({MatchesSimple(root, compound.simples[k], path) :
                    k \in 1..Len(compound.simples)}))

\* The parts 1..k of a complex selector on the element at path, part k on
\* the element itself.
MatchesAt(root, parts, k, path) ==
    LET n == Len(path)
        Sibling(j) == Append(Front(path), j)
        Left(comb) ==
            CASE comb = 32 ->
                    Highest({MatchesAt(root, parts, k - 1, SubSeq(path, 1, m)) :
                                m \in 0..(n - 1)})
              [] comb = 62 ->
                    IF n = 0 THEN 0 ELSE MatchesAt(root, parts, k - 1, Front(path))
              [] comb = 43 ->
                    IF n = 0 \/ path[n] = 1 THEN 0
                    ELSE MatchesAt(root, parts, k - 1, Sibling(path[n] - 1))
              [] comb = 126 ->
                    IF n = 0 THEN 0
                    ELSE Highest({MatchesAt(root, parts, k - 1, Sibling(j)) :
                                     j \in 1..(path[n] - 1)})
        Here(v) == IF v = 0 \/ k = 1 THEN v ELSE Both(v, Left(parts[k].comb))
    IN Here(MatchesCompound(root, parts[k].compound, path))

\* A selector list with the element at path as its subject.
MatchesList(root, list, path) ==
    Highest({MatchesAt(root, list[c], Len(list[c]), path) : c \in 1..Len(list)})

\* The first descendant in document order the list matches, among the
\* children of the element at path from the i-th on and what follows them:
\* "found" with its path, "null", or "unmodelled" when the model does not
\* say of it or of one before it whether it matches.
RECURSIVE FirstMatch(_, _, _, _)
FirstMatch(root, list, path, i) ==
    LET here == Append(path, i)
        Below(below) ==
            IF below.kind # "null" THEN below ELSE FirstMatch(root, list, path, i + 1)
        Here(v) ==
            IF v = 2 THEN [kind |-> "found", path |-> here]
            ELSE IF v = 1 THEN [kind |-> "unmodelled"]
            ELSE Below(FirstMatch(root, list, here, 1))
    IN IF i > Len(NodeAt(root, path).children) THEN [kind |-> "null"]
       ELSE Here(MatchesList(root, list, here))

\* tempDiv.querySelector(selector): "throws" for a SyntaxError.
querySelector(tempDiv, selector) ==
    LET Search(sel) ==
            IF sel.kind = "invalid" THEN [kind |-> "throws"]
            ELSE IF sel.kind = "unmodelled" THEN [kind |-> "unmodelled"]
            ELSE FirstMatch(tempDiv, sel.list, <<>>, 1)
    IN Search(ParseSelector(selector))

----------------------------------------------------------------------------
(* The callback of resolveTransclusions                                     *)

\* The while loop with nextElementSibling = sibs[k].
RECURSIVE FollowingSiblings(_, _, _)
FollowingSiblings(sibs, k, startLevel) ==
    IF k > Len(sibs) THEN <<>>
    ELSE IF /\ IsHeadingTag(sibs[k].tagName)
            /\ LessEq(parseInt(Tail(sibs[k].tagName)), startLevel)
         THEN <<>>
    ELSE OuterHTML(sibs[k]) \o FollowingSiblings(sibs, k + 1, startLevel)

\* The carriage returns of a text the HTML parser reads.
RECURSIVE Newlines(_)
Newlines(str) ==
    LET half == Len(str) \div 2
        cut == IF str[half] = 13 /\ str[half + 1] = 10 THEN half + 1 ELSE half
    IN IF Len(str) <= 2
       THEN IF str = <<13, 10>> THEN <<10>>
            ELSE [i \in 1..Len(str) |-> IF str[i] = 13 THEN 10 ELSE str[i]]
       ELSE Newlines(SubSeq(str, 1, cut)) \o Newlines(SubSeq(str, cut + 1, Len(str)))

\* The HTML parser reads the text as characters: no "<" opens a tag or a
\* comment, no "&" a character reference, and there is no NUL.
PlainText(str) ==
    \A i \in 1..Len(str) :
        /\ str[i] # 0
        /\ str[i] = 60 =>
              Pt(str, i + 1) \notin 65..90 \cup 97..122 \cup {33, 47, 63}
        /\ str[i] = 38 =>
              Pt(str, i + 1) \notin 48..57 \cup 65..90 \cup 97..122 \cup {35}

ErrorOpen == Codes("<span class=\"text-red-500 text-sm\">")

ErrorClose == Codes("</span>")

\* innerHTML of the placeholder once the span with the message is assigned
\* to it: the serialization of what the assigned markup is parsed to.
ErrorShown(message) ==
    CASE PlainText(message) ->
            ErrorOpen \o Escaped(Newlines(message), FALSE) \o ErrorClose

SectionMessage(id, sl) ==
    Codes("Error: Section #") \o id \o Codes(" not found in ") \o sl

PageMessage(sl) == Codes("Error: Page ") \o sl \o Codes(" not found")

SectionError(id, sl) == ErrorShown(SectionMessage(id, sl))

PageError(sl) == ErrorShown(PageMessage(sl))

\* The properties every object parsed from db.json inherits.
ObjectPrototypeKeys ==
    {Codes(key) : key \in
        {"constructor", "__proto__", "hasOwnProperty", "isPrototypeOf",
         "propertyIsEnumerable", "toLocaleString", "toString", "valueOf",
         "__defineGetter__", "__defineSetter__", "__lookupGetter__",
         "__lookupSetter__"}}

\* window.siteData.pages[slug] is truthy: a page of the map, or a property
\* the map inherits.
PagePresent(sitePages, sl) == sl \in DOMAIN sitePages \/ sl \in ObjectPrototypeKeys

\* The elements of tempDiv: those of the page's content; an inherited
\* property has no content, and the text "undefined" is no element.
ElementsOf(sitePages, sl) == IF sl \in DOMAIN sitePages THEN sitePages[sl] ELSE <<>>

\* tempDiv once rawHtml is assigned to its innerHTML.
TempDiv(sitePages, sl) ==
    Element(Codes("DIV"), <<>>,
            IF sl \in DOMAIN sitePages THEN <<>> ELSE Codes("undefined"),
            ElementsOf(sitePages, sl))

\* tempDiv.querySelector('#' + id) for a placeholder whose page is present.
StartNode(el, sitePages) ==
    querySelector(TempDiv(sitePages, el.slug), Codes("#") \o el.id)

\* The model follows the callback on the placeholder to its end.
Completes(el, sitePages) ==
    LET Found(found) ==
            \/ found.kind = "null" /\ PlainText(SectionMessage(el.id, el.slug))
            \/ /\ found.kind = "found"
               /\ Rendered(ElementsOf(sitePages, el.slug), FALSE, FALSE, FALSE)
               /\ LET d == IntDigits(Tail(NodeAt(TempDiv(sitePages, el.slug),
                                                  found.path).tagName))
                  IN d.run <= MaxDigits[d.radix]
    IN IF PagePresent(sitePages, el.slug) THEN Found(StartNode(el, sitePages))
       ELSE PlainText(PageMessage(el.slug))

\* The body of the forEach callback when it completes; innerHTML is what
\* the placeholder holds afterwards, which for the elements of Rendered is
\* the markup assigned.
Resolved(el, sitePages) ==
    LET Spliced(sibs, k) ==
            [el EXCEPT
               !.innerHTML = OuterHTML(sibs[k])
                             \o FollowingSiblings(sibs, k + 1,
                                                  parseInt(Tail(sibs[k].tagName))),
               !.classList = (@ \ {"animate-pulse"}) \cup {"bg-opacity-50"}]
        Found(found) ==
            CASE found.kind = "found" ->
                    Spliced(NodeAt(TempDiv(sitePages, el.slug), Front(found.path)).children,
                            found.path[Len(found.path)])
              [] found.kind = "null" ->
                    [el EXCEPT !.innerHTML = SectionError(el.id, el.slug)]
    IN IF PagePresent(sitePages, el.slug) THEN Found(StartNode(el, sitePages))
       ELSE [el EXCEPT !.innerHTML = PageError(el.slug)]

InitView ==
    /\ siteData \in {[sl \in {Codes("/guide")} |-> c] : c \in Contents}
    /\ dom \in Placeholders
    /\ resolved = 0
    /\ viewPc = "mounted"
    /\ TreeIdle /\ SlugIdle /\ SynIdle /\ DescIdle /\ MapIdle /\ BuildIdle

viewFrame == <<treeVars, slugVars, synVars, descVars, mapVars, buildVars, siteData>>

\* resolveTransclusions is entered; it returns when the page has no placeholder.
Mounted ==
    /\ viewPc = "mounted"
    /\ viewPc' = IF Len(dom) = 0 THEN "returned" ELSE "each"
    /\ UNCHANGED <<dom, resolved, viewFrame>>

\* The callback on the next placeholder completes; Completes is taken as
\* one value.
ResolveEach ==
    /\ viewPc = "each" /\ resolved < Len(dom)
    /\ Completes(dom[resolved + 1], siteData) = TRUE
    /\ dom' = [dom EXCEPT ![resolved + 1] = Resolved(@, siteData)]
    /\ resolved' = resolved + 1
    /\ UNCHANGED <<viewPc, viewFrame>>

\* querySelector throws a SyntaxError on '#' + id: the callback and
\* resolveTransclusions are left with the placeholder as it was.
SelectorThrows ==
    /\ viewPc = "each" /\ resolved < Len(dom)
    /\ PagePresent(siteData, dom[resolved + 1].slug)
    /\ StartNode(dom[resolved + 1], siteData).kind = "throws"
    /\ viewPc' = "thrown"
    /\ UNCHANGED <<dom, resolved, viewFrame>>

\* forEach has called the callback on every placeholder.
Returned ==
    /\ viewPc = "each" /\ resolved = Len(dom)
    /\ viewPc' = "returned"
    /\ UNCHANGED <<dom, resolved, viewFrame>>

NextView == Mounted \/ ResolveEach \/ SelectorThrows \/ Returned

SpecView == InitView /\ [][NextView]_vars

\* The ids of the elements of a content, at any depth.
RECURSIVE IdsOf(_)
IdsOf(nodes) ==
    UNION {{nodes[i].id} \cup IdsOf(nodes[i].children) : i \in 1..Len(nodes)} \ {<<>>}

\* The first element in document order with an id, as <<its siblings, its
\* index>>, or <<>>.
RECURSIVE FirstWithId(_, _, _)
FirstWithId(nodes, i, id) ==
    IF i > Len(nodes) THEN <<>>
    ELSE IF nodes[i].id = id THEN <<nodes, i>>
    ELSE LET below == FirstWithId(nodes[i].children, 1, id)
         IN IF below # <<>> THEN below ELSE FirstWithId(nodes, i + 1, id)

\* The level of a heading, 0 for any other element.
HeadingLevel(e) == IF IsHeadingTag(e.tagName) THEN e.tagName[2] - 48 ELSE 0

\* The target element and its following siblings up to, and without, the
\* first following heading of the target's level or above.
Section(sibs, i) ==
    LET stops == {k \in (i + 1)..Len(sibs) :
                     HeadingLevel(sibs[k]) \in 1..HeadingLevel(sibs[i])}
        last == IF stops = {} THEN Len(sibs)
                ELSE (CHOOSE k \in stops : \A j \in stops : k <= j) - 1
    IN HTMLOf(SubSeq(sibs, i, last))

\* The placeholder's page exists and holds a heading with the anchor id.
HeadingTarget(el) ==
    /\ el.slug \in DOMAIN siteData
    /\ el.id \in IdsOf(siteData[el.slug])
    /\ LET found == FirstWithId(siteData[el.slug], 1, el.id)
       IN HeadingLevel(found[1][found[2]]) > 0

SectionSpliced(el) ==
    LET found == FirstWithId(siteData[el.slug], 1, el.id)
    IN el.innerHTML = Section(found[1], found[2])

\* C24: once resolveTransclusions is over, every placeholder whose page
\* exists and holds a heading with the anchor id has as content the heading
\* followed by its following siblings, up to and without the first
\* following heading of the same level or above.
C24_SectionSpliced ==
    viewPc \in {"returned", "thrown"} =>
        \A n \in 1..Len(dom) : HeadingTarget(dom[n]) => SectionSpliced(dom[n])

\* The splice is that of C24 for every placeholder whose callback completed.
SectionSplicedWhenResolved ==
    \A n \in 1..resolved : HeadingTarget(dom[n]) => SectionSpliced(dom[n])

\* The error a placeholder with a missing page or section must show.
MissingReported(el) ==
    /\ el.slug \notin DOMAIN siteData => el.innerHTML = PageError(el.slug)
    /\ (el.slug \in DOMAIN siteData /\ el.id \notin IdsOf(siteData[el.slug]))
          => el.innerHTML = SectionError(el.id, el.slug)

\* C25: once resolveTransclusions is over, every placeholder whose slug is
\* not a key of the page map shows the error naming the page, and every
\* placeholder whose page has no element with the anchor id shows the error
\* naming the section; the output of the build is not touched.
C25_MissingTargetReported ==
    viewPc \in {"returned", "thrown"} =>
        /\ \A n \in 1..Len(dom) : MissingReported(dom[n])
        /\ BuildIdle

\* '#' + id is one id selector, that of the id itself.
SelectsById(id) ==
    LET sel == ParseSelector(Codes("#") \o id)
    IN /\ sel.kind = "valid" /\ Len(sel.list) = 1 /\ Len(sel.list[1]) = 1
       /\ sel.list[1][1].compound.type.any
       /\ sel.list[1][1].compound.simples = <<[k |-> "id", v |-> id]>>

\* The errors are those of C25 for every placeholder whose callback
\* completed, whose slug is not the name of a property every object has
\* and whose anchor id makes one id selector when its page exists.
MissingReportedWhenResolved ==
    \A n \in 1..resolved :
        (/\ dom[n].slug \notin ObjectPrototypeKeys
         /\ dom[n].slug \in DOMAIN siteData => SelectsById(dom[n].id))
            => MissingReported(dom[n])

\* The documents of a set in the order the walk visits them.
InWalkOrder(docs) ==
    CHOOSE s \in [1..Cardinality(docs) -> docs] :
        \A i, j \in DOMAIN s : i < j => WalkBefore(s[i].path, s[j].path)

\* The walk leaves an entry that is a regular file with the extension .md.
DocumentStep ==
    /\ buildPc = "walk" /\ pending # <<>> /\ pending' = Tail(pending)
    /\ ~Head(pending).isDir
    /\ Ext(Head(pending).path) = ".md"

\* One page written, one addToTree call and one slug appended for f.
Contributes(f) ==
    LET sl == DeriveSlug(f.path)
        src == ReadFile(f, faults)
    IN /\ DOMAIN pages' = DOMAIN pages \cup {sl}
       /\ pages'[sl] = PageOf(src)
       /\ \A other \in DOMAIN pages \ {sl} : pages'[other] = pages[other]
       /\ menu' = addToTree(menu, PartsOf(f.path), sl,
                            FinalTitle(src.meta, f.path), getInt(src.meta, "weight"))
       /\ xmlUrls' = Append(xmlUrls, sl)

\* C26: a step of the run that passes a regular file with the extension .md
\* writes one page, calls addToTree once and appends one slug, all for that
\* document; any other step (a directory, another file, the start, the
\* writes) changes neither the page map, the menu nor the slug list; so the
\* slug list is, at every point, that of the documents passed, in walk
\* order, and after the walk that of all the documents.
C26_OneContributionPerDocument ==
    /\ [](/\ xmlUrls = [i \in 1..Cardinality(Processed) |->
                           DeriveSlug(InWalkOrder(Processed)[i].path)]
          /\ buildPc \in {"db", "shell", "done"} => Processed = Documents)
    /\ [][IF DocumentStep
          THEN Contributes(CHOOSE f \in inputDir.files : f.path = Head(pending).path)
          ELSE UNCHANGED <<pages, menu, xmlUrls>>]_vars

\* C26 witness: the walk has passed the directory guide, its document
\* intro.md and the file notes.txt, and only the document has contributed.
C26_Witness ==
    /\ buildPc = "walk" /\ pending = <<>>
    /\ {f.path : f \in inputDir.files} = {"guide/intro.md", "notes.txt"}
    /\ xmlUrls = <<"/guide/intro">>
    /\ DOMAIN pages = {"/guide/intro"}
    /\ LeafSlugs(menu) = {"/guide/intro"}

\* The documents passed by the walk whose read failed.
ReadFailed == {f \in Processed : Fault("ReadFile", f.path) \in faults}

\* C27: an artifact is written only when every document has been processed
\* and none with an error; in a run without failure the artifacts appear in
\* the order sitemap.xml, db.json, index.html and all three are there at the
\* end; a run whose walk returned an error has written none and leaves the
\* output directory empty.
C27_ArtifactsAfterCleanWalk ==
    /\ WrittenArtifacts # {} =>
          /\ pending = <<>> /\ Processed = Documents
          /\ ReadFailed = {}
    /\ faults = {} =>
          /\ WrittenArtifacts \in {{}, {"sitemap.xml"}, {"sitemap.xml", "db.json"},
                                   Artifacts}
          /\ buildPc = "done" => WrittenArtifacts = Artifacts
    /\ buildPc = "aborted" =>
          /\ WrittenArtifacts = {}
          /\ outDir.exists /\ DOMAIN outDir.files = {}

\* Artifacts are written only after the walk has passed every document, in
\* the order sitemap.xml, db.json, index.html when no write fails, and none
\* is written by a run whose walk returned an error.
ArtifactsAfterWalk ==
    /\ WrittenArtifacts # {} => (pending = <<>> /\ Processed = Documents)
    /\ (\A flt \in faults : flt.op # "WriteFile") =>
          /\ buildPc \in {"start", "stopped", "walk", "aborted"} => WrittenArtifacts = {}
          /\ (buildPc = "db" /\ outDir.exists) => WrittenArtifacts = {"sitemap.xml"}
          /\ (buildPc = "shell" /\ outDir.exists) =>
                WrittenArtifacts = {"sitemap.xml", "db.json"}
          /\ (buildPc = "done" /\ outDir.exists) => WrittenArtifacts = Artifacts
    /\ buildPc = "aborted" => WrittenArtifacts = {}

----------------------------------------------------------------------------
(* Insertion into the navigation tree only adds                            *)

\* A node without its children.
Strip(n) == [n EXCEPT !.Children = <<>>]

\* How many nodes of a level are x, children aside.
CountIn(nodes, x) == Cardinality({i \in 1..Len(nodes) : Strip(nodes[i]) = x})

RECURSIVE CountAtDepth(_, _)
\* The number of nodes k levels below nodes.
CountAtDepth(nodes, k) ==
    IF nodes = <<>> THEN 0
    ELSE IF k = 0 THEN Len(nodes)
    ELSE CountAtDepth(Head(nodes).Children, k - 1) + CountAtDepth(Tail(nodes), k)

RECURSIVE OnlyAdds(_, _)
\* The level after holds every node of the level before with its title,
\* slug, weight and kind, and at most one node more; it is the same sequence
\* when it holds none more; a folder made here has a child; and the same
\* holds for the children of every folder of before.
OnlyAdds(before, after) ==
    /\ Len(after) \in {Len(before), Len(before) + 1}
    /\ \A i \in 1..Len(before) :
          CountIn(before, Strip(before[i])) <= CountIn(after, Strip(before[i]))
    /\ Len(after) = Len(before) =>
          \A i \in 1..Len(before) : Strip(after[i]) = Strip(before[i])
    /\ \A j \in 1..Len(after) :
          after[j].IsFolder =>
              /\ after[j].Children # <<>>
              /\ LET olds == {i \in 1..Len(before) :
                                 before[i].IsFolder /\ before[i].Title = after[j].Title}
                 IN /\ Cardinality(olds) <= 1
                    /\ \A i \in olds : OnlyAdds(before[i].Children, after[j].Children)
                    /\ olds = {} => OnlyAdds(<<>>, after[j].Children)

\* C28: an insertion removes no node and changes the title, slug, weight
\* and kind of no node; it creates at most one node for each segment of the
\* path, at most one of them a leaf; a level where it creates no node keeps
\* its sibling sequence; and every folder has a child once the insertion
\* that created it is over.
C28_InsertionOnlyAdds ==
    [][\A d \in inserted' \ inserted :
          LET n == Len(PartsOf(d.relPath))
          IN /\ OnlyAdds(menu, menu')
             /\ \A k \in 0..(n - 1) :
                   CountAtDepth(menu', k) - CountAtDepth(menu, k) \in {0, 1}
             /\ \A k \in n..(n + 1) : CountAtDepth(menu', k) = CountAtDepth(menu, k)
             /\ Cardinality(Leaves(menu')) <= Cardinality(Leaves(menu)) + 1
             /\ Leaves(menu) \subseteq Leaves(menu')]_vars

\* C28 witness: a.md titled B, then a-b/b.md created the folder with its
\* leaf, and b.md found the leaf of a.md and created no node.
C28_Witness ==
    /\ inserted = {[relPath |-> "a.md", meta |-> [title |-> StrVal("B")]],
                   [relPath |-> "a-b/b.md", meta |-> <<>>],
                   [relPath |-> "b.md", meta |-> <<>>]}
    /\ Len(menu) = 2
    /\ LeafSlugs(menu) = {"/a", "/a-b/b"}
    /\ \E i \in 1..Len(menu) : menu[i].IsFolder /\ Len(menu[i].Children) = 1

----------------------------------------------------------------------------
(* The two description paths                                               *)

\* C29: once both have processed the same document, the description of
\* ProcessMarkdown and that of the monolithic build are the same, whether
\* the metadata description is absent, empty, a non-empty string or a value
\* that is not a string, and whatever the first paragraph.
C29_SameDescription ==
    descPc = {"modular", "monolith"} => resDesc = mainDesc

\* The two descriptions are the same when the metadata description is
\* absent or a string.
SameDescriptionOnStrings ==
    (/\ descPc = {"modular", "monolith"}
     /\ "description" \in DOMAIN metaData => metaData["description"].tag = "string")
        => resDesc = mainDesc

----------------------------------------------------------------------------
(* Directive expansion as a substitution over the rendered HTML            *)

\* What a piece is to become when every directive is rewritten where it
\* stands, the links first: a directive in a code span or a code block is
\* rewritten as anywhere else, and a reference whose slug is a link is
\* rewritten after the link, so that it names what the anchor's text up to
\* its first "#" and behind it make of it.
SubstitutedPiece(p) ==
    CASE p.kind = "code" ->
            "<code>" \o Anchor(Slashed(p.s), p.s) \o "</code>"
      [] p.kind = "pre" ->
            "<pre><code>" \o Placeholder(Slashed(p.s), p.t) \o "</code></pre>"
      [] p.kind = "reflink" ->
            LET a == Anchor(Slashed(p.s), p.s)
                h == IndexFrom(a, "#", 1)
            IN Placeholder(Slashed(SubSeq(a, 1, h - 1)),
                           SubSeq(a, h + 1, Len(a)) \o "#" \o p.t)
      [] OTHER -> ExpectedPiece(p)

RECURSIVE Substituted(_)
Substituted(ps) ==
    IF ps = <<>> THEN "" ELSE SubstitutedPiece(Head(ps)) \o Substituted(Tail(ps))

\* No text of s has the form of a link or of a reference.
NoDirectiveIn(s) == FindWikiLink(s, 1) = NoMatch /\ FindRefTag(s, 1) = NoMatch

SubstitutionKinds == {"plain", "wiki", "ref", "code", "pre", "reflink"}

\* C30: the expansion rewrites every link and every reference of the HTML
\* where it stands, in code spans and code blocks as anywhere else, the
\* links before the references, and its output holds no text that has the
\* form of a link or of a reference.
C30_EveryDirectiveSubstituted ==
    synPc = "done" =>
        /\ KindsIn(SubstitutionKinds) => html = Substituted(text)
        /\ KindsIn(SubstitutionKinds \cup {"nested"}) => NoDirectiveIn(html)

\* The substitution is that of C30 on texts whose links are not written
\* inside the brackets of another link.
SubstitutedWhenNotNested ==
    (synPc = "done" /\ KindsIn(SubstitutionKinds)) =>
        html = Substituted(text) /\ NoDirectiveIn(html)
=============================================================================
